---- MODULE Spec2Model ----
(***************************************************************************)
(* serini: a serde-based INI codec.  The model covers the escaping codec   *)
(* (ser.rs escape_value, de.rs unescape_value), the encoder (ser.rs        *)
(* to_string and the Serializer's SerializeStruct::serialize_field), the   *)
(* line parser (de.rs Deserializer::from_str) and the type-directed        *)
(* decoder (de.rs deserialize_struct, RootStructAccess, StructAccess,      *)
(* SectionDeserializer, ValueDeserializer).                                *)
(*                                                                         *)
(* A character is a one-element TLA+ string, a Rust string is a sequence   *)
(* of characters, and the INI text is a sequence of characters too.        *)
(***************************************************************************)
EXTENDS Integers, Sequences, FiniteSets, TLC

VARIABLES
    pc,               \* position of the call being modelled
    input,            \* escaping run: the string handed to escape_value
    escaped,          \* escaping run: escape_value(input)
    unescaped,        \* escaping run: unescape_value(escaped)
    value,            \* the value handed to to_string
    encoded,          \* the Result of to_string
    shape,            \* the target type T of from_str::<T>
    text,             \* the text handed to from_str; escaping run: the line written
    lines,            \* Deserializer::from_str: the lines not yet processed
    sections,         \* Deserializer::from_str: the section table
    current_section,  \* Deserializer::from_str: the current section name
    decoded,          \* the Result of from_str
    access,           \* a RootStructAccess: root_fields, sections, index, in_sections
    calls             \* the calls made on it so far, each with what it returned

vars == <<pc, input, escaped, unescaped, value, encoded, shape, text, lines,
          sections, current_section, decoded, access, calls>>

-----------------------------------------------------------------------------
(* Bounds of the model. *)

\* escaping run: longest input string
MaxLen == 3

-----------------------------------------------------------------------------
(* Characters and strings. *)

BS == "\\"
NL == "\n"
CR == "\r"
TAB == "\t"
DQ == "\""
SEMI == ";"
HASH == "#"
SP == " "
EQ == "="
LB == "["
RB == "]"

\* a value that stands for "not computed yet"
Nil == [k |-> "nil"]

\* all sequences over S of length at most n
RECURSIVE SeqsUpTo(_, _)
SeqsUpTo(S, n) ==
    IF n = 0 THEN {<<>>}
    ELSE LET shorter == SeqsUpTo(S, n - 1)
         IN  shorter \cup {Append(t, c) : t \in shorter, c \in S}

StartsWith(str, pat) ==
    Len(str) >= Len(pat) /\ SubSeq(str, 1, Len(pat)) = pat

EndsWith(str, pat) ==
    Len(str) >= Len(pat) /\ SubSeq(str, Len(str) - Len(pat) + 1, Len(str)) = pat

\* str::replace: every non-overlapping match of pat, left to right, becomes rep
RECURSIVE Replace(_, _, _)
Replace(str, pat, rep) ==
    IF Len(str) < Len(pat) THEN str
    ELSE IF SubSeq(str, 1, Len(pat)) = pat
         THEN rep \o Replace(SubSeq(str, Len(pat) + 1, Len(str)), pat, rep)
         ELSE <<Head(str)>> \o Replace(Tail(str), pat, rep)

-----------------------------------------------------------------------------
(* The escaping codec. *)

\* escape_value with the backslash pass moved to the end of the chain
escape_value_backslash_last(v) ==
    LET r1 == Replace(v,  <<NL>>,   <<BS, "n">>)
        r2 == Replace(r1, <<CR>>,   <<BS, "r">>)
        r3 == Replace(r2, <<TAB>>,  <<BS, "t">>)
        r4 == Replace(r3, <<DQ>>,   <<BS, DQ>>)
        r5 == Replace(r4, <<SEMI>>, <<BS, SEMI>>)
        r6 == Replace(r5, <<HASH>>, <<BS, HASH>>)
        r7 == Replace(r6, <<BS>>,   <<BS, BS>>)
    IN  r7

\* Serializer::escape_value: seven replace passes, the backslash first
escape_value(v) ==
    LET r1 == Replace(v,  <<BS>>,   <<BS, BS>>)
        r2 == Replace(r1, <<NL>>,   <<BS, "n">>)
        r3 == Replace(r2, <<CR>>,   <<BS, "r">>)
        r4 == Replace(r3, <<TAB>>,  <<BS, "t">>)
        r5 == Replace(r4, <<DQ>>,   <<BS, DQ>>)
        r6 == Replace(r5, <<SEMI>>, <<BS, SEMI>>)
        r7 == Replace(r6, <<HASH>>, <<BS, HASH>>)
    IN  r7

\* Serializer::write_key_value
write_key_value(output, key, val) ==
    output \o key \o <<SP, EQ, SP>> \o escape_value(val) \o <<NL>>

\* Deserializer::unescape_value: seven replace passes, the double backslash first
unescape_value(v) ==
    LET r1 == Replace(v,  <<BS, BS>>,   <<BS>>)
        r2 == Replace(r1, <<BS, "n">>,  <<NL>>)
        r3 == Replace(r2, <<BS, "r">>,  <<CR>>)
        r4 == Replace(r3, <<BS, "t">>,  <<TAB>>)
        r5 == Replace(r4, <<BS, DQ>>,   <<DQ>>)
        r6 == Replace(r5, <<BS, SEMI>>, <<SEMI>>)
        r7 == Replace(r6, <<BS, HASH>>, <<HASH>>)
    IN  r7

-----------------------------------------------------------------------------
(* The escaping run: write_key_value on a string, with the escape_value it  *)
(* calls, then unescape_value on the escaped string, as to_string followed *)
(* by from_str does for every value.                                       *)

kText == <<"t", "e", "x", "t">>

\* the characters the escaping run draws its strings from
EscapeChars == {BS, NL, CR, TAB, DQ, SEMI, HASH, "n", "r", "t", "a"}

\* every string over EscapeChars up to MaxLen, and the documented "a;b#c"
EscapeInputs ==
    SeqsUpTo(EscapeChars, MaxLen) \cup {<<"a", SEMI, "b", HASH, "c">>}

InitEscape ==
    /\ pc = "escape"
    /\ input \in EscapeInputs
    /\ escaped = Nil
    /\ unescaped = Nil
    /\ value = Nil
    /\ encoded = Nil
    /\ shape = Nil
    /\ text = Nil
    /\ lines = Nil
    /\ sections = Nil
    /\ current_section = Nil
    /\ decoded = Nil
    /\ access = Nil
    /\ calls = Nil

\* Serializer::write_key_value of the field text on an empty output
Escape ==
    /\ pc = "escape"
    /\ escaped' = escape_value(input)
    /\ text' = write_key_value(<<>>, kText, input)
    /\ pc' = "unescape"
    /\ UNCHANGED <<access, calls, input, unescaped, value, encoded, shape, lines,
                   sections, current_section, decoded>>

\* Deserializer::unescape_value of the escaped string
Unescape ==
    /\ pc = "unescape"
    /\ unescaped' = unescape_value(escaped)
    /\ pc' = "escape_done"
    /\ UNCHANGED <<access, calls, input, escaped, value, encoded, shape, text, lines,
                   sections, current_section, decoded>>

NextEscape == Escape \/ Unescape

SpecEscape == InitEscape /\ [][NextEscape]_vars

\* what the escape table of the documentation gives for one character
EscapedChar(c) ==
    CASE c = BS   -> <<BS, BS>>
      [] c = NL   -> <<BS, "n">>
      [] c = CR   -> <<BS, "r">>
      [] c = TAB  -> <<BS, "t">>
      [] c = DQ   -> <<BS, DQ>>
      [] c = SEMI -> <<BS, SEMI>>
      [] c = HASH -> <<BS, HASH>>
      [] OTHER    -> <<c>>

RECURSIVE EscapedString(_)
EscapedString(str) ==
    IF str = <<>> THEN <<>> ELSE EscapedChar(Head(str)) \o EscapedString(Tail(str))

\* C2: for every string s, unescape_value(escape_value(s)) = s, also when s
\* holds a backslash followed by n, r, t, a double quote, a semicolon or a hash
C2_EscapeRoundTrip ==
    pc = "escape_done" => unescaped = input

\* C3: escape_value replaces every character by its entry of the escape
\* table (backslash doubled; newline, carriage return, tab, double quote,
\* semicolon and hash prefixed or spelled with a backslash), keeps every
\* other character, and escapes no backslash it inserted itself; the field
\* is written as the line "key = " followed by the escaped value
C3_EscapeTable ==
    pc \in {"unescape", "escape_done"}
        => /\ escaped = EscapedString(input)
           /\ text = kText \o <<SP, EQ, SP>> \o EscapedString(input) \o <<NL>>

\* the field text = "a;b#c" has been written as the line text = a\;b\#c
C3_Witness ==
    /\ pc = "unescape"
    /\ input = <<"a", SEMI, "b", HASH, "c">>
    /\ escaped = <<"a", BS, SEMI, "b", BS, HASH, "c">>
    /\ text = <<"t", "e", "x", "t", SP, EQ, SP, "a", BS, SEMI, "b", BS, HASH, "c", NL>>

-----------------------------------------------------------------------------
(* Values handed to to_string, as serde's data model sees them.            *)
(*   [k |-> "bool", b]            [k |-> "int", ty, neg, mag]              *)
(*   [k |-> "char", c]            [k |-> "str", s]                         *)
(*   [k |-> "none", of]           [k |-> "some", v]                        *)
(*   [k |-> "struct", name, fields]  with fields a sequence of [key, v]    *)
(*   [k |-> "unit"], [k |-> "seq"], [k |-> "tuple"], [k |-> "map"],        *)
(*   [k |-> "tuple_struct"], [k |-> "unit_variant", variant],              *)
(*   [k |-> "newtype_variant"], [k |-> "tuple_variant"],                   *)
(*   [k |-> "struct_variant"]                                              *)
(* An integer is its type, its sign and its decimal magnitude (most        *)
(* significant digit first, no leading zero), so that all eight widths     *)
(* keep their true ranges.  None carries the type T of its Option<T>.      *)

Ok(v) == [st |-> "ok", v |-> v]
Err(e) == [st |-> "err", err |-> e]

\* Error::UnsupportedFeature(String)
UnsupportedFeature(what) == [kind |-> "UnsupportedFeature", what |-> what]

\* Error::InvalidValue { typ, value }
InvalidValue(typ, raw) == [kind |-> "InvalidValue", typ |-> typ, value |-> raw]

DigitChars == <<"0", "1", "2", "3", "4", "5", "6", "7", "8", "9">>

IsDigit(c) == \E i \in 1..10 : DigitChars[i] = c

DigitOf(c) == (CHOOSE i \in 1..10 : DigitChars[i] = c) - 1

\* i64::to_string / u64::to_string: an optional '-' and the decimal digits
IntToString(v) ==
    (IF v.neg THEN <<"-">> ELSE <<>>)
        \o [i \in 1..Len(v.mag) |-> DigitChars[v.mag[i] + 1]]

\* StructDetector: is_struct is set by serialize_struct, reached through
\* serialize_some; every other method leaves it false
RECURSIVE is_struct(_)
is_struct(v) ==
    CASE v.k = "struct" -> TRUE
      [] v.k = "some"   -> is_struct(v.v)
      [] OTHER          -> FALSE

\* SectionCollector, the first pass of to_string: the keys of the top-level
\* record's fields that serialize as a struct
RECURSIVE SectionCollector(_)
SectionCollector(v) ==
    CASE v.k = "struct" ->
            LET found == SelectSeq(v.fields, LAMBDA f : is_struct(f.v))
            IN  [i \in 1..Len(found) |-> found[i].key]
      [] v.k = "some" -> SectionCollector(v.v)
      [] OTHER -> <<>>

Contains(seq, x) == \E i \in 1..Len(seq) : seq[i] = x

\* Serializer::write_commented_key
write_commented_key(output, key) ==
    output \o <<SEMI, SP>> \o key \o <<SP, EQ, SP, NL>>

RECURSIVE Serialize(_, _)
RECURSIVE serialize_field(_, _, _, _)
RECURSIVE SerializeFields(_, _, _, _)

\* impl ser::Serializer for &mut Serializer, on a serializer whose output is
\* empty: Ok(output) or Err(error).  section_names is the serializer's list.
Serialize(v, section_names) ==
    CASE v.k = "bool" -> Ok(IF v.b THEN <<"t", "r", "u", "e">>
                                  ELSE <<"f", "a", "l", "s", "e">>)
      [] v.k = "int"  -> Ok(IntToString(v))
      [] v.k = "char" -> Ok(<<v.c>>)
      [] v.k = "str"  -> Ok(v.s)
      [] v.k = "none" -> Ok(<<>>)
      [] v.k = "some" -> Serialize(v.v, section_names)
      [] v.k = "unit" -> Ok(<<>>)
      [] v.k = "unit_variant"    -> Ok(v.variant)
      [] v.k = "newtype_variant" -> Err(UnsupportedFeature("enum variants"))
      [] v.k = "seq"             -> Err(UnsupportedFeature("sequences"))
      [] v.k = "tuple"           -> Err(UnsupportedFeature("tuples"))
      [] v.k = "tuple_struct"    -> Err(UnsupportedFeature("tuple structs"))
      [] v.k = "tuple_variant"   -> Err(UnsupportedFeature("tuple variants"))
      [] v.k = "map"             -> Ok(<<>>)
      [] v.k = "struct_variant"  -> Err(UnsupportedFeature("struct variants"))
      [] v.k = "struct" -> SerializeFields(v.fields, 1, <<>>, section_names)

\* the derived Serialize of a record: serialize_field for each field in
\* declaration order, stopping at the first error
SerializeFields(fields, i, output, section_names) ==
    IF i > Len(fields) THEN Ok(output)
    ELSE LET r == serialize_field(output, section_names, fields[i].key, fields[i].v)
         IN  IF r.st = "err" THEN r
             ELSE SerializeFields(fields, i + 1, r.v, section_names)

\* a serialize_field that writes "key = " for a value without text
serialize_field_empty_value(output, section_names, key, v) ==
    IF is_struct(v)
    THEN LET o1 == IF output # <<>> /\ ~EndsWith(output, <<NL>>)
                   THEN output \o <<NL>> ELSE output
             o2 == o1 \o <<LB>> \o key \o <<RB, NL>>
             nested == Serialize(v, section_names)
         IN  IF nested.st = "err" THEN nested ELSE Ok(o2 \o nested.v)
    ELSE LET temp == Serialize(v, section_names)
         IN  IF temp.st = "err" THEN temp
             ELSE IF temp.v = <<>> /\ v.k = "none"
                  THEN IF ~Contains(section_names, key)
                       THEN Ok(write_commented_key(output, key))
                       ELSE Ok(output)
                  ELSE Ok(write_key_value(output, key, temp.v))

\* a serialize_field that writes the header of a record after its lines
serialize_field_header_last(output, section_names, key, v) ==
    IF is_struct(v)
    THEN LET nested == Serialize(v, section_names)
         IN  IF nested.st = "err" THEN nested
             ELSE Ok(output \o nested.v \o <<LB>> \o key \o <<RB, NL>>)
    ELSE LET temp == Serialize(v, section_names)
         IN  IF temp.st = "err" THEN temp
             ELSE IF temp.v = <<>>
                  THEN IF ~Contains(section_names, key)
                       THEN Ok(write_commented_key(output, key))
                       ELSE Ok(output)
                  ELSE Ok(write_key_value(output, key, temp.v))

\* SerializeStruct::serialize_field for &mut Serializer: Ok(the new output)
serialize_field(output, section_names, key, v) ==
    IF is_struct(v)
    THEN LET o1 == IF output # <<>> /\ ~EndsWith(output, <<NL>>)
                   THEN output \o <<NL>> ELSE output
             o2 == o1 \o <<LB>> \o key \o <<RB, NL>>
             nested == Serialize(v, section_names)
         IN  IF nested.st = "err" THEN nested ELSE Ok(o2 \o nested.v)
    ELSE LET temp == Serialize(v, section_names)
         IN  IF temp.st = "err" THEN temp
             ELSE IF temp.v = <<>>
                  THEN IF ~Contains(section_names, key)
                       THEN Ok(write_commented_key(output, key))
                       ELSE Ok(output)
                  ELSE Ok(write_key_value(output, key, temp.v))

\* ser::to_string
to_string(v) == Serialize(v, SectionCollector(v))

-----------------------------------------------------------------------------
(* The line parser, Deserializer::from_str.  The section table maps a      *)
(* section name to a map from key to value; both maps are TLA+ functions.  *)

Whitespace == {SP, TAB, NL, CR}

RECURSIVE TrimStart(_)
TrimStart(str) ==
    IF str # <<>> /\ Head(str) \in Whitespace THEN TrimStart(Tail(str)) ELSE str

RECURSIVE TrimEnd(_)
TrimEnd(str) ==
    IF str # <<>> /\ str[Len(str)] \in Whitespace
    THEN TrimEnd(SubSeq(str, 1, Len(str) - 1)) ELSE str

\* str::trim
Trim(str) == TrimEnd(TrimStart(str))

\* the last position of c in str, 0 when there is none
Find_last(str, c) ==
    IF \E i \in 1..Len(str) : str[i] = c
    THEN CHOOSE i \in 1..Len(str) : str[i] = c /\ \A j \in (i + 1)..Len(str) : str[j] # c
    ELSE 0

\* str::find: the first position of c in str, 0 when there is none
Find(str, c) ==
    IF \E i \in 1..Len(str) : str[i] = c
    THEN CHOOSE i \in 1..Len(str) : str[i] = c /\ \A j \in 1..(i - 1) : str[j] # c
    ELSE 0

\* str::lines: the pieces between line feeds, each without its line ending
\* (a line feed, or a carriage return and a line feed); no last empty piece
RECURSIVE Lines(_)
Lines(str) ==
    IF str = <<>> THEN <<>>
    ELSE LET n == Find(str, NL)
             piece == IF n = 0 THEN str ELSE SubSeq(str, 1, n - 1)
             line == IF n # 0 /\ EndsWith(piece, <<CR>>)
                     THEN SubSeq(piece, 1, Len(piece) - 1) ELSE piece
             rest == IF n = 0 THEN <<>> ELSE SubSeq(str, n + 1, Len(str))
         IN  <<line>> \o Lines(rest)

EmptyMap == [x \in {} |-> <<>>]

\* HashMap::insert: the entry for key is replaced or added
Insert(map, key, val) ==
    [x \in DOMAIN map \cup {key} |-> IF x = key THEN val ELSE map[x]]

\* Deserializer::from_str before its loop: the root section exists and is current
NewTable == [sections |-> Insert(EmptyMap, <<>>, EmptyMap), current_section |-> <<>>]

\* a loop body whose header branch names the section without creating it
ParseOneLine_no_create(tbl, cur, raw) ==
    LET line == Trim(raw)
        eq_pos == Find(line, EQ)
    IN  IF line = <<>> \/ StartsWith(line, <<SEMI>>) \/ StartsWith(line, <<HASH>>)
        THEN [sections |-> tbl, current_section |-> cur]
        ELSE IF StartsWith(line, <<LB>>) /\ EndsWith(line, <<RB>>)
        THEN [sections |-> tbl, current_section |-> SubSeq(line, 2, Len(line) - 1)]
        ELSE IF eq_pos # 0
        THEN LET key == Trim(SubSeq(line, 1, eq_pos - 1))
                 val == unescape_value(Trim(SubSeq(line, eq_pos + 1, Len(line))))
             IN  [sections |-> IF cur \in DOMAIN tbl
                               THEN Insert(tbl, cur, Insert(tbl[cur], key, val))
                               ELSE tbl,
                  current_section |-> cur]
        ELSE [sections |-> tbl, current_section |-> cur]

\* a loop body that looks for the equals sign before it looks for brackets
ParseOneLine_kv_first(tbl, cur, raw) ==
    LET line == Trim(raw)
        eq_pos == Find(line, EQ)
    IN  IF line = <<>> \/ StartsWith(line, <<SEMI>>) \/ StartsWith(line, <<HASH>>)
        THEN [sections |-> tbl, current_section |-> cur]
        ELSE IF eq_pos # 0
        THEN LET key == Trim(SubSeq(line, 1, eq_pos - 1))
                 val == unescape_value(Trim(SubSeq(line, eq_pos + 1, Len(line))))
             IN  [sections |-> IF cur \in DOMAIN tbl
                               THEN Insert(tbl, cur, Insert(tbl[cur], key, val))
                               ELSE tbl,
                  current_section |-> cur]
        ELSE IF StartsWith(line, <<LB>>) /\ EndsWith(line, <<RB>>)
        THEN LET name == SubSeq(line, 2, Len(line) - 1)
             IN  [sections |-> Insert(tbl, name, EmptyMap), current_section |-> name]
        ELSE [sections |-> tbl, current_section |-> cur]

\* a loop body that keeps the value a key already has
ParseOneLine_keep_first(tbl, cur, raw) ==
    LET line == Trim(raw)
        eq_pos == Find(line, EQ)
    IN  IF line = <<>> \/ StartsWith(line, <<SEMI>>) \/ StartsWith(line, <<HASH>>)
        THEN [sections |-> tbl, current_section |-> cur]
        ELSE IF StartsWith(line, <<LB>>) /\ EndsWith(line, <<RB>>)
        THEN LET name == SubSeq(line, 2, Len(line) - 1)
             IN  [sections |-> Insert(tbl, name, EmptyMap), current_section |-> name]
        ELSE IF eq_pos # 0
        THEN LET key == Trim(SubSeq(line, 1, eq_pos - 1))
                 val == unescape_value(Trim(SubSeq(line, eq_pos + 1, Len(line))))
             IN  [sections |-> IF cur \in DOMAIN tbl /\ key \notin DOMAIN tbl[cur]
                               THEN Insert(tbl, cur, Insert(tbl[cur], key, val))
                               ELSE tbl,
                  current_section |-> cur]
        ELSE [sections |-> tbl, current_section |-> cur]

\* a loop body that stores a line without an equals sign as a key without
\* a value
ParseOneLine_store_bare(tbl, cur, raw) ==
    LET line == Trim(raw)
        eq_pos == Find(line, EQ)
    IN  IF line = <<>> \/ StartsWith(line, <<SEMI>>) \/ StartsWith(line, <<HASH>>)
        THEN [sections |-> tbl, current_section |-> cur]
        ELSE IF StartsWith(line, <<LB>>) /\ EndsWith(line, <<RB>>)
        THEN LET name == SubSeq(line, 2, Len(line) - 1)
             IN  [sections |-> Insert(tbl, name, EmptyMap), current_section |-> name]
        ELSE IF eq_pos # 0
        THEN LET key == Trim(SubSeq(line, 1, eq_pos - 1))
                 val == unescape_value(Trim(SubSeq(line, eq_pos + 1, Len(line))))
             IN  [sections |-> IF cur \in DOMAIN tbl
                               THEN Insert(tbl, cur, Insert(tbl[cur], key, val))
                               ELSE tbl,
                  current_section |-> cur]
        ELSE [sections |-> IF cur \in DOMAIN tbl
                           THEN Insert(tbl, cur, Insert(tbl[cur], line, <<>>))
                           ELSE tbl,
              current_section |-> cur]

\* Deserializer::from_str, the body of its loop for one line
ParseOneLine(tbl, cur, raw) ==
    LET line == Trim(raw)
        eq_pos == Find(line, EQ)
    IN  IF line = <<>> \/ StartsWith(line, <<SEMI>>) \/ StartsWith(line, <<HASH>>)
        THEN [sections |-> tbl, current_section |-> cur]
        ELSE IF StartsWith(line, <<LB>>) /\ EndsWith(line, <<RB>>)
        THEN LET name == SubSeq(line, 2, Len(line) - 1)
             IN  [sections |-> Insert(tbl, name, EmptyMap), current_section |-> name]
        ELSE IF eq_pos # 0
        THEN LET key == Trim(SubSeq(line, 1, eq_pos - 1))
                 val == unescape_value(Trim(SubSeq(line, eq_pos + 1, Len(line))))
             IN  [sections |-> IF cur \in DOMAIN tbl
                               THEN Insert(tbl, cur, Insert(tbl[cur], key, val))
                               ELSE tbl,
                  current_section |-> cur]
        ELSE [sections |-> tbl, current_section |-> cur]

-----------------------------------------------------------------------------
(* Target types of from_str::<T>.                                          *)
(*   [k |-> "bool"], [k |-> "int", ty], [k |-> "char"], [k |-> "string"],  *)
(*   [k |-> "option", of], [k |-> "struct", name, fields] with fields a    *)
(*   sequence of [key, ty], [k |-> "unit"], [k |-> "seq"], [k |-> "tuple"],*)
(*   [k |-> "tuple_struct"], [k |-> "map", of], [k |-> "enum"]             *)
(* A decoded map is [k |-> "map", entries], entries a function of its keys. *)

SignedTypes == {"i8", "i16", "i32", "i64"}
UnsignedTypes == {"u8", "u16", "u32", "u64"}
IntTypes == SignedTypes \cup UnsignedTypes

\* the largest value of each integer type, as decimal digits
MaxMag(ty) ==
    CASE ty = "i8" -> <<1, 2, 7>>
      [] ty = "i16" -> <<3, 2, 7, 6, 7>>
      [] ty = "i32" -> <<2, 1, 4, 7, 4, 8, 3, 6, 4, 7>>
      [] ty = "i64" -> <<9, 2, 2, 3, 3, 7, 2, 0, 3, 6, 8, 5, 4, 7, 7, 5, 8, 0, 7>>
      [] ty = "u8" -> <<2, 5, 5>>
      [] ty = "u16" -> <<6, 5, 5, 3, 5>>
      [] ty = "u32" -> <<4, 2, 9, 4, 9, 6, 7, 2, 9, 5>>
      [] ty = "u64" -> <<1, 8, 4, 4, 6, 7, 4, 4, 0, 7, 3, 7, 0, 9, 5, 5, 1, 6, 1, 5>>

\* the magnitude of the smallest value of each signed type
MinMag(ty) ==
    CASE ty = "i8" -> <<1, 2, 8>>
      [] ty = "i16" -> <<3, 2, 7, 6, 8>>
      [] ty = "i32" -> <<2, 1, 4, 7, 4, 8, 3, 6, 4, 8>>
      [] ty = "i64" -> <<9, 2, 2, 3, 3, 7, 2, 0, 3, 6, 8, 5, 4, 7, 7, 5, 8, 0, 8>>

\* a <= b for magnitudes without leading zeros
MagLeq(a, b) ==
    \/ Len(a) < Len(b)
    \/ /\ Len(a) = Len(b)
       /\ \/ a = b
          \/ \E i \in 1..Len(a) :
                /\ a[i] < b[i]
                /\ \A j \in 1..(i - 1) : a[j] = b[j]

RECURSIVE StripZeros(_)
StripZeros(mag) ==
    IF Len(mag) > 1 /\ Head(mag) = 0 THEN StripZeros(Tail(mag)) ELSE mag

\* <integer type>::from_str without its range check: every run of digits is
\* accepted
IntFromStr_unchecked(ty, raw) ==
    LET signed == ty \in SignedTypes
        sign == IF raw # <<>> /\ Head(raw) = "+" THEN "+"
                ELSE IF raw # <<>> /\ Head(raw) = "-" /\ signed THEN "-"
                ELSE ""
        digits == IF sign = "" THEN raw ELSE Tail(raw)
        allDigits == \A i \in 1..Len(digits) : IsDigit(digits[i])
        mag == StripZeros([i \in 1..Len(digits) |-> DigitOf(digits[i])])
        neg == sign = "-"
    IN  IF raw = <<>> \/ digits = <<>> \/ ~allDigits THEN Err("ParseIntError")
        ELSE Ok([k |-> "int", ty |-> ty, neg |-> neg /\ mag # <<0>>, mag |-> mag])

\* <integer type>::from_str: an optional sign ('-' only for signed types),
\* then one or more decimal digits, the value within the type's range
IntFromStr(ty, raw) ==
    LET signed == ty \in SignedTypes
        sign == IF raw # <<>> /\ Head(raw) = "+" THEN "+"
                ELSE IF raw # <<>> /\ Head(raw) = "-" /\ signed THEN "-"
                ELSE ""
        digits == IF sign = "" THEN raw ELSE Tail(raw)
        allDigits == \A i \in 1..Len(digits) : IsDigit(digits[i])
        mag == StripZeros([i \in 1..Len(digits) |-> DigitOf(digits[i])])
        neg == sign = "-"
    IN  IF raw = <<>> \/ digits = <<>> \/ ~allDigits THEN Err("ParseIntError")
        ELSE IF neg /\ ~MagLeq(mag, MinMag(ty)) THEN Err("ParseIntError")
        ELSE IF ~neg /\ ~MagLeq(mag, MaxMag(ty)) THEN Err("ParseIntError")
        ELSE Ok([k |-> "int", ty |-> ty, neg |-> neg /\ mag # <<0>>, mag |-> mag])

\* a character outside ASCII: two bytes in UTF-8
EACUTE == "U+00E9"

\* char::len_utf8 for the characters of the model
Utf8Width(c) == IF c = EACUTE THEN 2 ELSE 1

\* str::len: the length in bytes
RECURSIVE ByteLen(_)
ByteLen(str) == IF str = <<>> THEN 0 ELSE Utf8Width(Head(str)) + ByteLen(Tail(str))

\* serde's missing-field error, through de::Error of the crate's Error type
MissingField(key) == [kind |-> "MissingField", field |-> key]

\* serde's duplicate-field error, through de::Error of the crate's Error type
DuplicateField(key) == [kind |-> "DuplicateField", field |-> key]

\* serde's invalid-type error of a visitor that has no visit_map
InvalidType(expected) == [kind |-> "InvalidType", unexpected |-> "map", expected |-> expected]

\* impl de::Deserializer for ValueDeserializer, driven by T::deserialize
RECURSIVE Coerce(_, _)
Coerce(ty, raw) ==
    CASE ty.k = "bool" ->
            IF raw = <<"t", "r", "u", "e">> THEN Ok([k |-> "bool", b |-> TRUE])
            ELSE IF raw = <<"f", "a", "l", "s", "e">> THEN Ok([k |-> "bool", b |-> FALSE])
            ELSE Err(InvalidValue("bool", raw))
      [] ty.k = "int" ->
            LET r == IntFromStr(ty.ty, raw)
            IN  IF r.st = "ok" THEN r ELSE Err(InvalidValue(ty.ty, raw))
      [] ty.k = "char" ->
            IF ByteLen(raw) = 1 THEN Ok([k |-> "char", c |-> raw[1]])
            ELSE Err(InvalidValue("char", raw))
      [] ty.k = "string" -> Ok([k |-> "str", s |-> raw])
      [] ty.k = "option" ->
            LET r == Coerce(ty.of, raw)
            IN  IF r.st = "ok" THEN Ok([k |-> "some", v |-> r.v]) ELSE r
      [] ty.k = "unit" -> Ok([k |-> "unit"])
      [] ty.k = "seq" -> Err(UnsupportedFeature("sequences"))
      [] ty.k = "tuple" -> Err(UnsupportedFeature("tuples"))
      [] ty.k = "tuple_struct" -> Err(UnsupportedFeature("tuple structs"))
      [] ty.k = "map" -> Err(UnsupportedFeature("maps in values"))
      [] ty.k = "struct" -> Err(UnsupportedFeature("structs in values"))
      [] ty.k = "enum" -> Err(UnsupportedFeature("enums"))

-----------------------------------------------------------------------------
(* The decoder.  A HashMap is iterated in an unspecified order: ord gives, *)
(* for this call, the order of each section's keys (ord.keys[name]), the   *)
(* order of the section names other than the root (ord.secs) and the       *)
(* number of them that come before the root (ord.root_at).                 *)

\* the sequences that list each element of S once
RECURSIVE Perms(_)
Perms(S) ==
    IF S = {} THEN {<<>>}
    ELSE UNION {{<<x>> \o p : p \in Perms(S \ {x})} : x \in S}

\* one order of its keys for every section named in names
RECURSIVE KeyOrders(_, _)
KeyOrders(tbl, names) ==
    IF names = {} THEN {EmptyMap}
    ELSE LET n == CHOOSE x \in names : TRUE
         IN  {Insert(g, n, p) : g \in KeyOrders(tbl, names \ {n}),
                                p \in Perms(DOMAIN tbl[n])}

Orders(tbl) ==
    {[keys |-> f, secs |-> q, root_at |-> n] :
        f \in KeyOrders(tbl, DOMAIN tbl),
        q \in Perms(DOMAIN tbl \ {<<>>}),
        n \in IF <<>> \in DOMAIN tbl THEN 0..Cardinality(DOMAIN tbl \ {<<>>}) ELSE {0}}

\* StructAccess::new: the (key, value) pairs of one section, none when the
\* section does not exist; each value is read through a ValueDeserializer
StructAccess(tbl, ord, section) ==
    IF section \in DOMAIN tbl
    THEN [i \in 1..Len(ord.keys[section]) |->
            [key |-> ord.keys[section][i],
             de  |-> [kind |-> "value", raw |-> tbl[section][ord.keys[section][i]]]]]
    ELSE <<>>

\* RootStructAccess that never switches to the sections
RootStructAccess_root_only(tbl, ord) == StructAccess(tbl, ord, <<>>)

\* RootStructAccess::new and its next_key_seed/next_value_seed: the root
\* section's pairs, then every section with a non-empty name, each read
\* through a SectionDeserializer
RootStructAccess(tbl, ord) ==
    LET root_fields == StructAccess(tbl, ord, <<>>)
    IN  root_fields \o
        [i \in 1..Len(ord.secs) |->
            [key |-> ord.secs[i], de |-> [kind |-> "section", name |-> ord.secs[i]]]]

\* MapAccess::new and its next_key_seed/next_value_seed: every section of the
\* table, the root included, each read through a SectionDeserializer
MapAccess(tbl, ord) ==
    LET names == IF <<>> \in DOMAIN tbl
                 THEN SubSeq(ord.secs, 1, ord.root_at) \o << <<>> >>
                        \o SubSeq(ord.secs, ord.root_at + 1, Len(ord.secs))
                 ELSE ord.secs
    IN  [i \in 1..Len(names) |->
            [key |-> names[i], de |-> [kind |-> "section", name |-> names[i]]]]

FieldIndex(fields, key) ==
    IF \E i \in 1..Len(fields) : fields[i].key = key
    THEN CHOOSE i \in 1..Len(fields) : fields[i].key = key
    ELSE 0

\* a visit_map that fills every unset field in as None
FinishStruct_lenient(st, slots) ==
    Ok([k |-> "struct", name |-> st.name,
        fields |-> [i \in 1..Len(st.fields) |->
            [key |-> st.fields[i].key,
             v |-> IF slots[i] = Nil
                   THEN [k |-> "none",
                         of |-> IF st.fields[i].ty.k = "option"
                                THEN st.fields[i].ty.of ELSE st.fields[i].ty]
                   ELSE slots[i]]]])

\* the end of the derived visit_map: an unset Option field is None, an
\* unset field of another type is a missing-field error, in declaration order
FinishStruct(st, slots) ==
    LET missing == {i \in 1..Len(st.fields) :
                        slots[i] = Nil /\ st.fields[i].ty.k # "option"}
    IN  IF missing # {}
        THEN Err(MissingField(
                st.fields[CHOOSE i \in missing : \A j \in missing : i <= j].key))
        ELSE Ok([k |-> "struct", name |-> st.name,
                 fields |-> [i \in 1..Len(st.fields) |->
                    [key |-> st.fields[i].key,
                     v |-> IF slots[i] = Nil
                           THEN [k |-> "none", of |-> st.fields[i].ty.of]
                           ELSE slots[i]]]])

RECURSIVE VisitMap(_, _, _, _, _, _)
RECURSIVE VisitMapOf(_, _, _, _, _, _)
RECURSIVE SectionDeserializer(_, _, _, _)

\* T::deserialize on the deserializer next_value_seed hands out
DeserializeEntry(tbl, ord, ty, de) ==
    IF de.kind = "value" THEN Coerce(ty, de.raw)
    ELSE SectionDeserializer(tbl, ord, ty, de.name)

\* the visit_map of a derived record visitor over the entries of a MapAccess:
\* an entry whose key is no field is skipped, a second entry for a field is
\* a duplicate-field error, the first error ends the call
VisitMap(tbl, ord, st, entries, i, slots) ==
    IF i > Len(entries) THEN FinishStruct(st, slots)
    ELSE LET e == entries[i]
             f == FieldIndex(st.fields, e.key)
         IN  IF f = 0 THEN VisitMap(tbl, ord, st, entries, i + 1, slots)
             ELSE IF slots[f] # Nil THEN Err(DuplicateField(e.key))
             ELSE LET r == DeserializeEntry(tbl, ord, st.fields[f].ty, e.de)
                  IN  IF r.st = "err" THEN r
                      ELSE VisitMap(tbl, ord, st, entries, i + 1,
                                    [slots EXCEPT ![f] = r.v])

NoSlots(st) == [i \in 1..Len(st.fields) |-> Nil]

\* the visit_map of the visitor of a map type (HashMap<String, V>) over the
\* entries of a MapAccess: every value is read at type V, the first error
\* ends the call
VisitMapOf(tbl, ord, ty, entries, i, acc) ==
    IF i > Len(entries) THEN Ok([k |-> "map", entries |-> acc])
    ELSE LET r == DeserializeEntry(tbl, ord, ty.of, entries[i].de)
         IN  IF r.st = "err" THEN r
             ELSE VisitMapOf(tbl, ord, ty, entries, i + 1, Insert(acc, entries[i].key, r.v))

\* impl de::Deserializer for &mut SectionDeserializer: deserialize_struct
\* reads the section through StructAccess; every other method forwards to
\* deserialize_any, which hands the visitor a map
SectionDeserializer(tbl, ord, ty, section) ==
    CASE ty.k = "struct" ->
            VisitMap(tbl, ord, ty, StructAccess(tbl, ord, section), 1, NoSlots(ty))
      [] ty.k = "map" ->
            VisitMapOf(tbl, ord, ty, StructAccess(tbl, ord, section), 1, EmptyMap)
      [] OTHER -> Err(InvalidType(ty.k))

\* a deserialize_struct whose fallback always reads the root section alone
deserialize_struct_root_only(tbl, ord, st) ==
    IF st.name = <<>> \/ st.name \in DOMAIN tbl
    THEN IF st.name = <<>>
         THEN VisitMap(tbl, ord, st, RootStructAccess(tbl, ord), 1, NoSlots(st))
         ELSE VisitMap(tbl, ord, st, StructAccess(tbl, ord, st.name), 1, NoSlots(st))
    ELSE VisitMap(tbl, ord, st, StructAccess(tbl, ord, <<>>), 1, NoSlots(st))

\* Deserializer::deserialize_struct: the choice between RootStructAccess
\* and StructAccess
deserialize_struct(tbl, ord, st) ==
    IF st.name = <<>> \/ st.name \in DOMAIN tbl
    THEN IF st.name = <<>>
         THEN VisitMap(tbl, ord, st, RootStructAccess(tbl, ord), 1, NoSlots(st))
         ELSE VisitMap(tbl, ord, st, StructAccess(tbl, ord, st.name), 1, NoSlots(st))
    ELSE IF Cardinality(DOMAIN tbl) > 1
            \/ (Cardinality(DOMAIN tbl) = 1 /\ <<>> \notin DOMAIN tbl)
         THEN VisitMap(tbl, ord, st, RootStructAccess(tbl, ord), 1, NoSlots(st))
         ELSE VisitMap(tbl, ord, st, StructAccess(tbl, ord, <<>>), 1, NoSlots(st))

\* T::deserialize(&mut deserializer) for the target type T: impl
\* de::Deserializer for &mut Deserializer
RECURSIVE Deserialize(_, _, _)
Deserialize(tbl, ord, ty) ==
    CASE ty.k = "struct" -> deserialize_struct(tbl, ord, ty)
      [] ty.k = "bool" -> Ok([k |-> "bool", b |-> TRUE])
      [] ty.k = "int" -> Ok([k |-> "int", ty |-> ty.ty, neg |-> FALSE, mag |-> <<0>>])
      [] ty.k = "char" -> Ok([k |-> "char", c |-> "a"])
      [] ty.k = "string" -> Ok([k |-> "str", s |-> <<>>])
      [] ty.k = "option" ->
            LET r == Deserialize(tbl, ord, ty.of)
            IN  IF r.st = "ok" THEN Ok([k |-> "some", v |-> r.v]) ELSE r
      [] ty.k = "unit" -> Ok([k |-> "unit"])
      [] ty.k = "seq" -> Err(UnsupportedFeature("sequences"))
      [] ty.k = "tuple" -> Err(UnsupportedFeature("tuples"))
      [] ty.k = "tuple_struct" -> Err(UnsupportedFeature("tuple structs"))
      [] ty.k = "map" -> VisitMapOf(tbl, ord, ty, MapAccess(tbl, ord), 1, EmptyMap)
      [] ty.k = "enum" -> Err(UnsupportedFeature("enums"))

\* the type of a value
RECURSIVE ShapeOf(_)
ShapeOf(v) ==
    CASE v.k = "bool" -> [k |-> "bool"]
      [] v.k = "int" -> [k |-> "int", ty |-> v.ty]
      [] v.k = "char" -> [k |-> "char"]
      [] v.k = "str" -> [k |-> "string"]
      [] v.k = "none" -> [k |-> "option", of |-> v.of]
      [] v.k = "some" -> [k |-> "option", of |-> ShapeOf(v.v)]
      [] v.k = "struct" ->
            [k |-> "struct", name |-> v.name,
             fields |-> [i \in 1..Len(v.fields) |->
                            [key |-> v.fields[i].key, ty |-> ShapeOf(v.fields[i].v)]]]
      [] v.k \in {"unit_variant", "newtype_variant", "tuple_variant", "struct_variant"} ->
            [k |-> "enum"]
      [] v.k = "map" -> [k |-> "map", of |-> [k |-> "string"]]
      [] OTHER -> [k |-> v.k]

-----------------------------------------------------------------------------
(* The calls: to_string(value), and from_str::<shape>(text) as the parse   *)
(* loop, one line per step, followed by T::deserialize.                    *)

\* ser::to_string
CallToString ==
    /\ pc = "to_string"
    /\ encoded' = to_string(value)
    /\ pc' = IF encoded'.st = "ok" THEN "encoded" ELSE "encode_failed"
    /\ UNCHANGED <<access, calls, input, escaped, unescaped, value, shape, text, lines,
                   sections, current_section, decoded>>

\* the caller hands the text to_string returned to from_str::<T>, T the
\* type of the value
RoundTrip ==
    /\ pc = "encoded"
    /\ text' = encoded.v
    /\ shape' = ShapeOf(value)
    /\ pc' = "from_str"
    /\ UNCHANGED <<access, calls, input, escaped, unescaped, value, encoded, lines,
                   sections, current_section, decoded>>

\* Deserializer::from_str up to its loop
FromStrBegin ==
    /\ pc = "from_str"
    /\ lines' = Lines(text)
    /\ sections' = NewTable.sections
    /\ current_section' = NewTable.current_section
    /\ pc' = "parse"
    /\ UNCHANGED <<access, calls, input, escaped, unescaped, value, encoded, shape, text, decoded>>

\* Deserializer::from_str, one turn of its loop
ParseLine ==
    /\ pc = "parse"
    /\ lines # <<>>
    /\ LET r == ParseOneLine(sections, current_section, Head(lines))
       IN  /\ sections' = r.sections
           /\ current_section' = r.current_section
    /\ lines' = Tail(lines)
    /\ UNCHANGED <<access, calls, pc, input, escaped, unescaped, value, encoded, shape, text, decoded>>

\* de::from_str after the parse: T::deserialize(&mut deserializer), under one
\* of the iteration orders the table's HashMaps can have
DeserializeT ==
    /\ pc = "parse"
    /\ lines = <<>>
    /\ \E ord \in Orders(sections) : decoded' = Deserialize(sections, ord, shape)
    /\ pc' = "done"
    /\ UNCHANGED <<access, calls, input, escaped, unescaped, value, encoded, shape, text, lines,
                   sections, current_section>>

-----------------------------------------------------------------------------
(* The round-trip run: a value is encoded and the text is decoded at the   *)
(* value's own type.                                                       *)

\* round-trip run: longest string held by a field
MaxStrLen == 2

Rec(name, fields) == [k |-> "struct", name |-> name, fields |-> fields]
F(key, v) == [key |-> key, v |-> v]
Some(v) == [k |-> "some", v |-> v]
None(ty) == [k |-> "none", of |-> ty]
IntV(ty, neg, mag) == [k |-> "int", ty |-> ty, neg |-> neg, mag |-> mag]
Str(str) == [k |-> "str", s |-> str]
Char(c) == [k |-> "char", c |-> c]
Bool(b) == [k |-> "bool", b |-> b]

\* type, field and section names used by the runs
Config == <<"C", "f", "g">>
Inner == <<"I", "n">>
kA == <<"a">>
kB == <<"b">>
kG == <<"g">>
kX == <<"x">>
kY == <<"y">>

Bools == {Bool(TRUE), Bool(FALSE)}

\* zero, the largest and the smallest value of every integer type
Ints ==
    {IntV(ty, FALSE, <<0>>) : ty \in IntTypes}
        \cup {IntV(ty, FALSE, MaxMag(ty)) : ty \in IntTypes}
        \cup {IntV(ty, TRUE, MinMag(ty)) : ty \in SignedTypes}

Chars == {Char(c) : c \in {"a", "7", SP, SEMI, BS, NL, EACUTE}}

StrChars == {"a", "n", SP, BS, SEMI}

Strs == {Str(str) : str \in SeqsUpTo(StrChars, MaxStrLen)}

\* the supported scalars: bool, the integers, char, string
Scalars == Bools \cup Ints \cup Chars \cup Strs

\* the shapes to_string and from_str document as unsupported
Unsupported ==
    {[k |-> "seq"], [k |-> "tuple"], [k |-> "tuple_struct"], [k |-> "map"],
     [k |-> "unit_variant", variant |-> <<"V">>], [k |-> "newtype_variant"],
     [k |-> "tuple_variant"], [k |-> "struct_variant"]}

Unit == [k |-> "unit"]

\* what one field of the single-field records holds
FieldValues ==
    Scalars
        \cup {Some(v) : v \in Scalars}
        \cup {None(ShapeOf(v)) : v \in Scalars}
        \cup Unsupported
        \cup {Some(v) : v \in Unsupported}
        \cup {Unit}

\* what a field of the larger records holds
Small ==
    {IntV("u8", FALSE, <<5>>), Some(IntV("u8", FALSE, <<5>>)), None([k |-> "int", ty |-> "u8"]),
     Str(<<"a">>), [k |-> "seq"], [k |-> "map"]}

\* records nested one level below the top
Leaves == {Rec(Inner, <<F(key, v)>>) : key \in {kX, kY}, v \in Small}

\* records that hold a record themselves
Branches ==
    {Rec(Inner, <<F(kY, v), F(kG, Rec(Inner, <<F(kX, w)>>))>>) :
        v \in {IntV("u8", FALSE, <<5>>)}, w \in Small}

\* a record of the same type as its own optional fields (Option<Box<Self>>)
SelfShape(name) ==
    [k |-> "struct", name |-> name,
     fields |-> <<[key |-> kX, ty |-> [k |-> "option", of |-> [k |-> "int", ty |-> "u8"]]],
                  [key |-> kA, ty |-> [k |-> "option", of |-> [k |-> "struct", name |-> name, fields |-> <<>>]]]>>]

Boxed(name) ==
    {Rec(name, <<F(kX, v),
                 F(kA, Some(Rec(name, <<F(kX, w),
                                        F(kA, None([k |-> "struct", name |-> name, fields |-> <<>>]))>>)))>>) :
        v, w \in {None([k |-> "int", ty |-> "u8"]), Some(IntV("u8", FALSE, <<5>>))}}

\* the three fields x (a scalar), a and b (records) in every declaration order
Ordered(x, a, b) ==
    {[i \in 1..3 |-> <<F(kX, x), F(kA, a), F(kB, b)>>[p[i]]] : p \in Perms({1, 2, 3})}

EncodeInputs ==
    {Rec(Config, <<F(kX, v)>>) : v \in FieldValues}
        \cup {Rec(Config, <<F(kX, v), F(kY, w)>>) : v, w \in Small}
        \cup {Rec(Config, <<F(kX, v), F(kA, r)>>) : v \in Small, r \in Leaves \cup Branches}
        \cup {Rec(Config, <<F(kA, r), F(kX, v)>>) : v \in Small, r \in Leaves \cup Branches}
        \cup {Rec(Config, <<F(kA, Some(r))>>) : r \in Leaves}
        \cup {Rec(Config, <<F(kA, None(ShapeOf(r)))>>) : r \in Leaves}
        \cup UNION {{Rec(Config, fs) : fs \in Ordered(v, r, q)} :
                        v \in {IntV("u8", FALSE, <<5>>), None([k |-> "int", ty |-> "u8"])},
                        r \in {Rec(Inner, <<F(kX, IntV("u8", FALSE, <<5>>))>>)},
                        q \in {Rec(Inner, <<F(kY, Str(<<"a">>))>>)}}
        \cup Boxed(Config) \cup Boxed(kA)

InitCodec ==
    /\ pc = "to_string"
    /\ value \in EncodeInputs
    /\ input = Nil
    /\ escaped = Nil
    /\ unescaped = Nil
    /\ encoded = Nil
    /\ shape = Nil
    /\ text = Nil
    /\ lines = Nil
    /\ sections = Nil
    /\ current_section = Nil
    /\ decoded = Nil
    /\ access = Nil
    /\ calls = Nil

NextCodec == CallToString \/ RoundTrip \/ FromStrBegin \/ ParseLine \/ DeserializeT

SpecCodec == InitCodec /\ [][NextCodec]_vars

\* built only from supported scalars, options and records
RECURSIVE Supported(_)
Supported(v) ==
    CASE v.k \in {"bool", "int", "char", "str", "none"} -> TRUE
      [] v.k = "some" -> Supported(v.v)
      [] v.k = "struct" -> \A i \in 1..Len(v.fields) : Supported(v.fields[i].v)
      [] OTHER -> FALSE

\* holds a sequence, a tuple, a map or an enum variant at some depth
RECURSIVE HasUnsupported(_)
HasUnsupported(v) ==
    CASE v.k \in {"seq", "tuple", "tuple_struct", "map", "unit_variant",
                  "newtype_variant", "tuple_variant", "struct_variant"} -> TRUE
      [] v.k = "some" -> HasUnsupported(v.v)
      [] v.k = "struct" -> \E i \in 1..Len(v.fields) : HasUnsupported(v.fields[i].v)
      [] OTHER -> FALSE

IsHeaderLine(line) == StartsWith(line, <<LB>>) /\ EndsWith(line, <<RB>>)

\* the index of the first section header among ls, Len(ls) + 1 without one
FirstHeader(ls) ==
    IF \E i \in 1..Len(ls) : IsHeaderLine(ls[i])
    THEN CHOOSE i \in 1..Len(ls) :
            IsHeaderLine(ls[i]) /\ \A j \in 1..(i - 1) : ~IsHeaderLine(ls[j])
    ELSE Len(ls) + 1

PlaceholderLine(key) == <<SEMI, SP>> \o key \o <<SP, EQ, SP>>

\* the record under an Option, or the record itself
Unwrap(v) == IF v.k = "some" THEN v.v ELSE v

\* wherever orig holds None in a field, dec holds None in the same field
RECURSIVE NoneKept(_, _)
NoneKept(orig, dec) ==
    \A i \in 1..Len(orig.fields) :
        LET o == orig.fields[i].v
            d == dec.fields[i].v
        IN  /\ o.k = "none" => d.k = "none"
            /\ (Unwrap(o).k = "struct" /\ Unwrap(d).k = "struct")
                  => NoneKept(Unwrap(o), Unwrap(d))

\* C1: for every record built only from supported scalars, optional fields
\* and nested records, in any declaration order, from_str(to_string(v))
\* succeeds and returns v
C1_RoundTrip ==
    (pc \in {"encode_failed", "done"} /\ value # Nil /\ Supported(value))
        => (pc = "done" /\ decoded = Ok(value))

\* C4: a None field whose name is no section name is written as the one line
\* "; field = " (in a record without record fields, line i is field i's), and
\* the text decodes with None in that field (the record's own name being no
\* section name either)
C4_OptionalAbsent ==
    /\ (pc \in {"encoded", "from_str", "parse", "done"} /\ value # Nil
            /\ \A i \in 1..Len(value.fields) : ~is_struct(value.fields[i].v))
        => /\ Len(Lines(encoded.v)) = Len(value.fields)
           /\ \A i \in 1..Len(value.fields) :
                value.fields[i].v.k = "none"
                    => Lines(encoded.v)[i] = PlaceholderLine(value.fields[i].key)
    /\ (pc = "done" /\ value # Nil /\ Supported(value) /\ decoded.st = "ok"
            /\ ~Contains(SectionCollector(value), value.name))
        => NoneKept(value, decoded.v)

\* C5: a field holding Some(x), x a supported scalar, decodes back to Some(x)
C5_OptionalPresent ==
    (pc \in {"encode_failed", "done"} /\ value # Nil
        /\ Len(value.fields) = 1
        /\ value.fields[1].v.k = "some"
        /\ value.fields[1].v.v \in Scalars)
        => (pc = "done" /\ decoded = Ok(value))

\* C6: in the text of to_string every line of a root scalar field comes
\* before the first section header, whatever the declaration order, and the
\* headers of the record-typed fields come in declaration order
C6_EncoderOrdering ==
    (pc \in {"encoded", "from_str", "parse", "done"} /\ value # Nil /\ Supported(value))
        => LET ls == Lines(encoded.v)
               scalars == {i \in 1..Len(value.fields) : ~is_struct(value.fields[i].v)}
               records == {i \in 1..Len(value.fields) : is_struct(value.fields[i].v)}
           IN  /\ FirstHeader(ls) - 1 = Cardinality(scalars)
               /\ \A i, j \in records :
                    i < j => \E m, n \in 1..Len(ls) :
                                /\ m < n
                                /\ ls[m] = <<LB>> \o value.fields[i].key \o <<RB>>
                                /\ ls[n] = <<LB>> \o value.fields[j].key \o <<RB>>

\* C10: to_string fails with UnsupportedFeature for every value that holds a
\* sequence, a tuple, a map or an enum variant at any depth
C10_UnsupportedAtEncode ==
    (pc # "to_string" /\ value # Nil /\ HasUnsupported(value))
        => (encoded.st = "err" /\ encoded.err.kind = "UnsupportedFeature")

-----------------------------------------------------------------------------
(* The decode run: from_str::<shape>(text) on texts written by hand.       *)

TBool == [k |-> "bool"]
TInt(ty) == [k |-> "int", ty |-> ty]
TString == [k |-> "string"]
TOpt(t) == [k |-> "option", of |-> t]
TRec(name, fields) == [k |-> "struct", name |-> name, fields |-> fields]
TF(key, ty) == [key |-> key, ty |-> ty]

\* one "key = raw" line and one "[name]" line of a text
KV(key, raw) == key \o <<SP, EQ, SP>> \o raw \o <<NL>>
Header(name) == <<LB>> \o name \o <<RB, NL>>

kName == <<"n", "a", "m", "e">>
kPort == <<"p", "o", "r", "t">>
kDb == <<"d", "b">>
kHost == <<"h", "o", "s", "t">>
kCache == <<"c", "a", "c", "h", "e">>
kTtl == <<"t", "t", "l">>
kZ == <<"z">>
kSpeed == <<"s", "p", "e", "e", "d">>
kAnime == <<"a", "n", "i", "m", "e">>
kMovie == <<"m", "o", "v", "i", "e">>
DbT == <<"D", "b">>
CacheT == <<"C", "a", "c", "h", "e">>

rTrue == <<"t", "r", "u", "e">>
rFalse == <<"f", "a", "l", "s", "e">>
rApp == <<"a", "p", "p">>
rH == <<"h">>
r8080 == <<"8", "0", "8", "0">>
r5432 == <<"5", "4", "3", "2">>
r300 == <<"3", "0", "0">>
rNotANumber == <<"n", "o", "t", "_", "a", "_", "n", "u", "m", "b", "e", "r">>

\* the digits of a magnitude plus one
RECURSIVE Incr(_)
Incr(mag) ==
    IF mag = <<>> THEN <<1>>
    ELSE IF mag[Len(mag)] < 9
         THEN SubSeq(mag, 1, Len(mag) - 1) \o <<mag[Len(mag)] + 1>>
         ELSE Incr(SubSeq(mag, 1, Len(mag) - 1)) \o <<0>>

Numeral(neg, mag) == IntToString([neg |-> neg, mag |-> mag])

\* raw texts around the ends of every integer range
BoundaryRaws ==
    UNION {{Numeral(FALSE, MaxMag(ty)), Numeral(FALSE, Incr(MaxMag(ty)))} : ty \in IntTypes}
        \cup UNION {{Numeral(TRUE, MinMag(ty)), Numeral(TRUE, Incr(MinMag(ty)))} :
                        ty \in SignedTypes}

Raws ==
    {rTrue, rFalse, <<"T", "r", "u", "e">>, <<"T", "R", "U", "E">>, <<"y", "e", "s">>,
     <<"1">>, <<"0">>, <<>>, <<"a", "b", "c">>, rNotANumber, <<"1", ".", "5">>,
     <<"-">>, <<"+", "5">>, <<"-", "0">>, <<"-", "1">>, <<"1", "2", "a">>,
     <<"0", "0", "7">>, <<"1", SP, "2">>, <<"0", "x", "1", "0">>}
        \cup BoundaryRaws

\* bool, the eight integer types, and Option of each
CoercionTypes ==
    LET plain == {TBool} \cup {TInt(ty) : ty \in IntTypes}
    IN  plain \cup {TOpt(t) : t \in plain}

\* one field read from the root section, or from the section of a record field
CoercionInputs ==
    {[text |-> KV(kPort, raw), shape |-> TRec(Config, <<TF(kPort, t)>>)] :
        raw \in Raws, t \in CoercionTypes}
        \cup {[text |-> Header(kDb) \o KV(kPort, raw),
               shape |-> TRec(Config, <<TF(kDb, TRec(DbT, <<TF(kPort, t)>>))>>)] :
                raw \in Raws, t \in CoercionTypes}
        \cup {[text |-> KV(kPort, a) \o KV(kName, b),
               shape |-> TRec(Config, <<TF(kName, TBool), TF(kPort, TInt("u8"))>>)] :
                a \in {<<"2", "5", "5">>, <<"2", "5", "6">>}, b \in {rTrue, rApp}}
        \cup {[text |-> <<SP, SP>> \o kPort \o <<EQ>> \o <<SP, "a", BS, SEMI, "b", SP, CR, NL>>,
               shape |-> TRec(Config, <<TF(kPort, TInt("u16"))>>)]}

RootBlocks ==
    {<<>>,
     KV(kName, rApp),
     KV(kName, rApp) \o KV(kPort, r8080),
     KV(kPort, r8080) \o KV(kName, rApp),
     KV(kName, rApp) \o KV(kPort, rNotANumber),
     KV(kName, rApp) \o KV(kPort, r8080) \o KV(kDb, <<"1">>),
     KV(kName, rApp) \o KV(kPort, r8080) \o KV(kZ, <<"1">>),
     <<NL, SP, SP>> \o KV(kName, rApp) \o <<SEMI, SP, "c", NL>> \o KV(kPort, r8080) \o <<NL>>}

SectionBlocks ==
    {<<>>,
     Header(kDb) \o KV(kHost, rH),
     Header(kDb) \o KV(kPort, r5432) \o KV(kHost, rH),
     Header(kDb) \o KV(kHost, rH) \o KV(kPort, <<"x">>),
     Header(kDb),
     Header(kCache) \o KV(kTtl, r300),
     Header(kPort) \o KV(kHost, rH),
     Header(kName),
     Header(kZ) \o KV(kHost, rH)}

DbShape == TRec(DbT, <<TF(kHost, TString), TF(kPort, TOpt(TInt("u16")))>>)
CacheShape == TRec(CacheT, <<TF(kTtl, TInt("u32"))>>)

\* records with scalar fields and record-typed fields, in several declaration
\* orders; the last one bears the name of a section
RootShapes ==
    {TRec(Config, <<TF(kName, TString), TF(kPort, TInt("u16")), TF(kDb, DbShape)>>),
     TRec(Config, <<TF(kDb, DbShape), TF(kCache, CacheShape), TF(kName, TOpt(TString))>>),
     TRec(Config, <<TF(kDb, DbShape), TF(kPort, TOpt(TInt("u16")))>>),
     TRec(kDb, <<TF(kName, TString), TF(kPort, TInt("u16")), TF(kDb, DbShape)>>)}

RootInputs ==
    {[text |-> r \o s1 \o s2, shape |-> st] :
        r \in RootBlocks, s1 \in SectionBlocks, s2 \in SectionBlocks, st \in RootShapes}

\* struct Config { speed, anime: Option<Box<Config>>, movie: Option<Box<Config>> },
\* the recursion of the type cut below the second level
BoxedLeaf == TRec(Config, <<>>)
BoxedInner ==
    TRec(Config, <<TF(kSpeed, TInt("u8")), TF(kAnime, TOpt(BoxedLeaf)),
                   TF(kMovie, TOpt(BoxedLeaf))>>)
BoxedShape ==
    TRec(Config, <<TF(kSpeed, TInt("u8")), TF(kAnime, TOpt(BoxedInner)),
                   TF(kMovie, TOpt(BoxedInner))>>)

BoxedInputs ==
    {[text |-> <<NL>> \o KV(kSpeed, <<"1">>) \o a \o m, shape |-> BoxedShape] :
        a \in {<<>>, <<NL>> \o Header(kAnime) \o KV(kSpeed, <<"5">>)},
        m \in {<<>>, <<NL>> \o Header(kMovie) \o KV(kSpeed, <<"2">>)}}

TSeq == [k |-> "seq"]
TTuple == [k |-> "tuple"]
TEnum == [k |-> "enum"]
TMap(t) == [k |-> "map", of |-> t]

\* Vec<T>, a tuple, HashMap<String, String>, HashMap<String, HashMap<String,
\* String>> and an enum
UnsupportedShapes == {TSeq, TTuple, TEnum, TMap(TString), TMap(TMap(TString))}

\* an unsupported type as the target itself, as the type of a root key, of a
\* key of a section, and of a field that names a section
UnsupportedInputs ==
    {[text |-> t, shape |-> u] :
        t \in {<<>>, KV(kHost, rH), KV(kHost, rH) \o Header(kDb) \o KV(kHost, rH)},
        u \in UnsupportedShapes}
        \cup {[text |-> r \o KV(kHost, rH), shape |-> TRec(Config, <<TF(kHost, u)>>)] :
                r \in {<<>>, KV(kName, rApp)}, u \in UnsupportedShapes}
        \cup {[text |-> r \o Header(kDb) \o KV(kHost, rH),
               shape |-> TRec(Config, <<TF(kDb, TRec(DbT, <<TF(kHost, u)>>))>>)] :
                r \in {<<>>, KV(kName, rApp)}, u \in UnsupportedShapes}
        \cup {[text |-> r \o Header(kDb) \o k,
               shape |-> TRec(Config, <<TF(kDb, u)>>)] :
                r \in {<<>>, KV(kName, rApp)}, k \in {<<>>, KV(kHost, rH)},
                u \in UnsupportedShapes}

\* a record type named like the section db and record types without a name,
\* on texts with root keys, with the section db and with another section
NamedShapes ==
    {TRec(kDb, <<TF(kHost, TString), TF(kPort, TOpt(TInt("u16")))>>),
     TRec(<<>>, <<TF(kHost, TString), TF(kPort, TOpt(TInt("u16")))>>),
     TRec(<<>>, <<TF(kHost, TString), TF(kDb, DbShape)>>)}

NamedInputs ==
    {[text |-> r \o sec, shape |-> st] :
        r \in {<<>>, KV(kHost, rApp), KV(kHost, rApp) \o KV(kPort, r8080)},
        sec \in {<<>>, Header(kDb) \o KV(kHost, rH), Header(kDb),
                 Header(kCache) \o KV(kTtl, r300)},
        st \in NamedShapes}

DecodeInputs ==
    CoercionInputs \cup RootInputs \cup BoxedInputs \cup UnsupportedInputs \cup NamedInputs

InitDecode ==
    /\ pc = "from_str"
    /\ \E d \in DecodeInputs : text = d.text /\ shape = d.shape
    /\ value = Nil
    /\ encoded = Nil
    /\ input = Nil
    /\ escaped = Nil
    /\ unescaped = Nil
    /\ lines = Nil
    /\ sections = Nil
    /\ current_section = Nil
    /\ decoded = Nil
    /\ access = Nil
    /\ calls = Nil

NextDecode == FromStrBegin \/ ParseLine \/ DeserializeT

SpecDecode == InitDecode /\ [][NextDecode]_vars

IsScalarType(t) ==
    \/ t.k \in {"bool", "int", "string"}
    \/ t.k = "option" /\ t.of.k \in {"bool", "int", "string"}

\* a record whose fields are all scalars or Options of scalars
IsFlatRecord(t) ==
    t.k = "struct" /\ \A i \in 1..Len(t.fields) : IsScalarType(t.fields[i].ty)

\* a record of scalar fields and of record-typed fields one level deep
IsRootComposite(t) ==
    /\ t.k = "struct"
    /\ \A i \in 1..Len(t.fields) :
            IsScalarType(t.fields[i].ty) \/ IsFlatRecord(t.fields[i].ty)

\* the field f read from the keys of one section
FieldFrom(map, f) ==
    IF f.key \in DOMAIN map THEN Coerce(f.ty, map[f.key])
    ELSE IF f.ty.k = "option" THEN Ok([k |-> "none", of |-> f.ty.of])
    ELSE Err(MissingField(f.key))

\* the record of type st read from the keys of one section
RecordFrom(map, st) ==
    IF \A i \in 1..Len(st.fields) : FieldFrom(map, st.fields[i]).st = "ok"
    THEN Ok([k |-> "struct", name |-> st.name,
             fields |-> [i \in 1..Len(st.fields) |->
                            [key |-> st.fields[i].key,
                             v |-> FieldFrom(map, st.fields[i]).v]]])
    ELSE Err("unresolved")

\* the root-composite reading of the table at type st: scalar fields from the
\* root section, each record-typed field from the section of its name
RootComposite(tbl, st) ==
    LET part(f) == IF f.ty.k = "struct"
                   THEN IF f.key \in DOMAIN tbl THEN RecordFrom(tbl[f.key], f.ty)
                        ELSE Err(MissingField(f.key))
                   ELSE FieldFrom(tbl[<<>>], f)
    IN  IF \A i \in 1..Len(st.fields) : part(st.fields[i]).st = "ok"
        THEN Ok([k |-> "struct", name |-> st.name,
                 fields |-> [i \in 1..Len(st.fields) |->
                                [key |-> st.fields[i].key, v |-> part(st.fields[i]).v]]])
        ELSE Err("unresolved")

\* no section bears the name of a scalar field and no root key the name of a
\* record-typed field
NoNameClash(tbl, st) ==
    \A i \in 1..Len(st.fields) :
        IF st.fields[i].ty.k = "struct"
        THEN st.fields[i].key \notin DOMAIN tbl[<<>>]
        ELSE st.fields[i].key \notin DOMAIN tbl

\* a from_str call has returned on a text with root keys and one or more
\* sections, none of them named like the target record, at a root-composite
\* target type whose fields all have their keys and sections
RootCompositeCase ==
    /\ pc = "done"
    /\ value = Nil
    /\ IsRootComposite(shape)
    /\ DOMAIN sections[<<>>] # {}
    /\ DOMAIN sections # {<<>>}
    /\ shape.name \notin DOMAIN sections
    /\ RootComposite(sections, shape).st = "ok"

\* C7 as stated: when the text has root lines followed by one or more
\* sections and the target record's name is no section name, every scalar
\* field is the coerced root key of its name and every record-typed field is
\* the record read from the section of its name
C7_AsStated == RootCompositeCase => decoded = RootComposite(sections, shape)

\* C7: when the text has root lines followed by one or more sections, the
\* target record's name is no section name, no section bears the name of a
\* scalar field and no root key the name of a record-typed field, every
\* scalar field is the coerced root key of its name and every record-typed
\* field is the record read from the section of its name
C7_RootComposite ==
    (RootCompositeCase /\ NoNameClash(sections, shape))
        => decoded = RootComposite(sections, shape)

\* name = app and port = 8080 in the root, host = h under [db]
C7_Witness ==
    /\ pc = "done"
    /\ text = KV(kName, rApp) \o KV(kPort, r8080) \o Header(kDb) \o KV(kHost, rH)
    /\ shape = TRec(Config, <<TF(kName, TString), TF(kPort, TInt("u16")), TF(kDb, DbShape)>>)
    /\ decoded =
        Ok([k |-> "struct", name |-> Config,
            fields |-> <<[key |-> kName, v |-> [k |-> "str", s |-> rApp]],
                         [key |-> kPort,
                          v |-> [k |-> "int", ty |-> "u16", neg |-> FALSE, mag |-> <<8, 0, 8, 0>>]],
                         [key |-> kDb,
                          v |-> [k |-> "struct", name |-> DbT,
                                 fields |-> <<[key |-> kHost, v |-> [k |-> "str", s |-> rH]],
                                              [key |-> kPort,
                                               v |-> [k |-> "none", of |-> TInt("u16")]]>>]]>>])

\* C8: at a target record with Option<Box<Record>> fields, a field whose
\* section is in the text decodes to Some(the record of that section's keys)
\* and a field without a section decodes to None
C8_OptionalRecordFields ==
    (pc = "done" /\ value = Nil /\ shape = BoxedShape)
        => /\ decoded.st = "ok"
           /\ \A i \in 1..Len(shape.fields) :
                LET f == shape.fields[i]
                IN  (f.ty.k = "option" /\ f.ty.of.k = "struct")
                        => decoded.v.fields[i].v =
                            IF f.key \in DOMAIN sections
                            THEN [k |-> "some", v |-> RecordFrom(sections[f.key], f.ty.of).v]
                            ELSE [k |-> "none", of |-> f.ty.of]

\* an optional sign and one or more decimal digits
IsNumeric(raw) ==
    LET body == IF raw # <<>> /\ Head(raw) \in {"-", "+"} THEN Tail(raw) ELSE raw
    IN  body # <<>> /\ \A i \in 1..Len(body) : IsDigit(body[i])

\* a numeric text whose value lies outside the range of the type
OutOfRange(ty, raw) ==
    LET neg == Head(raw) = "-"
        body == IF Head(raw) \in {"-", "+"} THEN Tail(raw) ELSE raw
        mag == StripZeros([i \in 1..Len(body) |-> DigitOf(body[i])])
    IN  IF neg
        THEN mag # <<0>> /\ (ty \in UnsignedTypes \/ ~MagLeq(mag, MinMag(ty)))
        ELSE ~MagLeq(mag, MaxMag(ty))

\* the type under an Option, or the type itself
Requested(t) == IF t.k = "option" THEN t.of ELSE t

\* the raw text must not coerce to the bool or integer type t
BadRaw(t, raw) ==
    CASE Requested(t).k = "bool" -> raw \notin {rTrue, rFalse}
      [] Requested(t).k = "int" ->
            ~IsNumeric(raw) \/ OutOfRange(Requested(t).ty, raw)
      [] OTHER -> FALSE

TypeName(t) == IF Requested(t).k = "bool" THEN "bool" ELSE Requested(t).ty

\* the failing coercions among the fields of st that have a key in map
BadIn(map, st) ==
    {InvalidValue(TypeName(st.fields[i].ty), map[st.fields[i].key]) :
        i \in {j \in 1..Len(st.fields) :
                /\ st.fields[j].key \in DOMAIN map
                /\ BadRaw(st.fields[j].ty, map[st.fields[j].key])}}

\* the failing coercions of a root-composite reading
BadCoercions(tbl, st) ==
    BadIn(tbl[<<>>], [st EXCEPT !.fields = SelectSeq(st.fields, LAMBDA f : f.ty.k # "struct")])
        \cup UNION {BadIn(tbl[st.fields[i].key], st.fields[i].ty) :
                        i \in {j \in 1..Len(st.fields) :
                                /\ st.fields[j].ty.k = "struct"
                                /\ st.fields[j].key \in DOMAIN tbl}}

\* C9: a raw value that is not exactly "true" or "false" does not coerce to
\* bool, and one that is non-numeric or out of range does not coerce to an
\* integer type; from_str then returns InvalidValue with the name of the
\* requested type and the raw text as it stands; "true" and "false" coerce
C9_CoercionFailure ==
    (pc = "done" /\ value = Nil /\ IsRootComposite(shape)
        /\ shape.name \notin DOMAIN sections /\ NoNameClash(sections, shape))
        => /\ BadCoercions(sections, shape) # {}
                => (decoded.st = "err" /\ decoded.err \in BadCoercions(sections, shape))
           /\ (decoded.st = "err" /\ decoded.err.kind = "InvalidValue"
                    /\ decoded.err.typ = "bool")
                => decoded.err.value \notin {rTrue, rFalse}

\* port = not_a_number against a u16 field
C9_Witness ==
    /\ pc = "done"
    /\ text = KV(kPort, rNotANumber)
    /\ shape = TRec(Config, <<TF(kPort, TInt("u16"))>>)
    /\ decoded = Err(InvalidValue("u16", rNotANumber))

IsUnsupportedType(t) == t.k \in {"seq", "tuple", "map", "enum"}

\* the decode asks for an unsupported type: as the target itself, for the
\* value of a root key, for the value of a key of a record's section, or for
\* a field that is resolved from a section
UnsupportedRequested(tbl, st) ==
    \/ IsUnsupportedType(st)
    \/ /\ st.k = "struct"
       /\ st.name \notin DOMAIN tbl
       /\ \E i \in 1..Len(st.fields) :
            LET f == st.fields[i]
            IN  \/ IsUnsupportedType(f.ty)
                    /\ (f.key \in DOMAIN tbl[<<>>] \/ f.key \in DOMAIN tbl \ {<<>>})
                \/ /\ f.ty.k = "struct"
                   /\ f.key \in DOMAIN tbl \ {<<>>}
                   /\ \E j \in 1..Len(f.ty.fields) :
                        /\ IsUnsupportedType(f.ty.fields[j].ty)
                        /\ f.ty.fields[j].key \in DOMAIN tbl[f.key]

\* C11: a decode that asks for a sequence, a tuple, a map or an enum fails
\* with UnsupportedFeature, at the top level, for the value of a root or
\* section key, and for a field resolved from a section
C11_UnsupportedAtDecode ==
    (pc = "done" /\ value = Nil /\ UnsupportedRequested(sections, shape))
        => (decoded.st = "err" /\ decoded.err.kind = "UnsupportedFeature")

-----------------------------------------------------------------------------
(* The top-level run: to_string is handed a value that is not a record,    *)
(* and the text it returns is decoded at the value's own type.             *)

\* a bare bool, integer, char or string, an Option of one, and the unit
TopLevelInputs ==
    Scalars
        \cup {Some(v) : v \in Scalars}
        \cup {None(ShapeOf(v)) : v \in Scalars}
        \cup {Unit}

InitTopLevel ==
    /\ pc = "to_string"
    /\ value \in TopLevelInputs
    /\ input = Nil
    /\ escaped = Nil
    /\ unescaped = Nil
    /\ encoded = Nil
    /\ shape = Nil
    /\ text = Nil
    /\ lines = Nil
    /\ sections = Nil
    /\ current_section = Nil
    /\ decoded = Nil
    /\ access = Nil
    /\ calls = Nil

SpecTopLevel == InitTopLevel /\ [][NextCodec]_vars

\* C12: to_string on a value that is not a record at the top level (a bare
\* bool, integer, char, string, None, unit) fails with UnsupportedTopLevel
\* and returns no text
C12_TopLevelRejected ==
    (pc # "to_string" /\ value.k # "struct")
        => (encoded.st = "err" /\ encoded.err.kind = "UnsupportedTopLevel")

-----------------------------------------------------------------------------
(* Missing keys                                                            *)

\* the keys a root-composite reading needs and does not find: required
\* scalar fields without a root key, record-typed fields without a section,
\* required fields of a record-typed field without a key in its section
MissingKeys(tbl, st) ==
    LET missingIn(map, rec) ==
            {rec.fields[i].key :
                i \in {j \in 1..Len(rec.fields) :
                        /\ rec.fields[j].ty.k \notin {"option", "struct"}
                        /\ rec.fields[j].key \notin DOMAIN map}}
    IN  missingIn(tbl[<<>>], st)
            \cup {st.fields[i].key :
                    i \in {j \in 1..Len(st.fields) :
                            /\ st.fields[j].ty.k = "struct"
                            /\ st.fields[j].key \notin DOMAIN tbl}}
            \cup UNION {missingIn(tbl[st.fields[i].key], st.fields[i].ty) :
                            i \in {j \in 1..Len(st.fields) :
                                    /\ st.fields[j].ty.k = "struct"
                                    /\ st.fields[j].key \in DOMAIN tbl}}

\* an Option field read from the keys of its section: None without a key,
\* Some(the coerced raw text) with one
OptionalFrom(map, f, v) ==
    v = IF f.key \in DOMAIN map
        THEN [k |-> "some", v |-> Coerce(f.ty.of, map[f.key]).v]
        ELSE [k |-> "none", of |-> f.ty.of]

-----------------------------------------------------------------------------
(* Blank lines between the blocks of the encoder's text                    *)

\* C14: in the text to_string returns, every section header that has output
\* before it is separated from that output by one empty line, as in the
\* documented outputs
C14_BlankLineBeforeHeader ==
    (pc # "to_string" /\ Supported(value) /\ encoded.st = "ok")
        => LET ls == Lines(encoded.v)
           IN  \A i \in 2..Len(ls) : IsHeaderLine(ls[i]) => ls[i - 1] = <<>>

-----------------------------------------------------------------------------
(* The parse run: from_str on texts of a few lines of every kind.          *)

\* parse run: most lines of a text
MaxLines == 3

kK == <<"k">>
kJ == <<"j">>

\* " a=\;", a section name with a blank, an equals sign and an escape
kOdd == <<SP, "a", EQ, BS, SEMI>>

\* a blank line, the placeholder of an absent Option, a comment, the headers
\* [a], [ a=\;] and [], key/value lines, and a line without an equals sign
LineKinds ==
    {<<SP>>,
     <<SP, SEMI, SP>> \o kK \o <<SP, EQ, SP>>,
     <<HASH>> \o kK \o <<EQ, "1">>,
     <<LB>> \o kA \o <<RB>>,
     <<SP, LB>> \o kOdd \o <<RB, TAB>>,
     <<LB, RB>>,
     kK \o <<SP, EQ, SP, "1">>,
     kK \o <<SP, EQ, SP, "2">>,
     <<SP>> \o kK \o <<SP, EQ, SP, "a", EQ, BS, SEMI, SP>>,
     kJ \o <<EQ>>,
     kK}

\* the lines of ls, each ended by a line feed
RECURSIVE Join(_)
Join(ls) == IF ls = <<>> THEN <<>> ELSE Head(ls) \o <<NL>> \o Join(Tail(ls))

ParseTexts == {Join(ls) : ls \in SeqsUpTo(LineKinds, MaxLines)}

\* struct Config { k: Option<String>, a: Option<Inner> }, Inner { k: Option<String> }
ParseShape ==
    TRec(Config, <<TF(kK, TOpt(TString)),
                   TF(kA, TOpt(TRec(Inner, <<TF(kK, TOpt(TString))>>)))>>)

InitParse ==
    /\ pc = "from_str"
    /\ text \in ParseTexts
    /\ shape = ParseShape
    /\ value = Nil
    /\ encoded = Nil
    /\ input = Nil
    /\ escaped = Nil
    /\ unescaped = Nil
    /\ lines = Nil
    /\ sections = Nil
    /\ current_section = Nil
    /\ decoded = Nil
    /\ access = Nil
    /\ calls = Nil

SpecParse == InitParse /\ [][NextDecode]_vars

\* the loop of from_str is about to handle a line
AtLine == pc = "parse" /\ lines # <<>>

\* the trimmed line is no blank line and no comment
IsContent(line) == line # <<>> /\ line[1] \notin {SEMI, HASH}

\* the trimmed line is a key/value line
IsKeyValueLine(line) ==
    IsContent(line) /\ ~IsHeaderLine(line) /\ \E i \in 1..Len(line) : line[i] = EQ

\* C15: after any prefix of the lines the table holds the root section and
\* the current section, one map per section name, and so every key/value
\* line is stored: its key is in the current section after the step
C15_ParserInvariant ==
    /\ [](pc \in {"parse", "done"}
            => /\ <<>> \in DOMAIN sections
               /\ current_section \in DOMAIN sections)
    /\ [][(AtLine /\ IsKeyValueLine(Trim(Head(lines))))
            => \E key \in DOMAIN sections'[current_section] :
                    StartsWith(TrimStart(Head(lines)), key)]_vars

\* [a] and k = 1 have been read: the table holds the root section and the
\* section a, which is the current one and holds k
C15_Witness ==
    /\ pc = "parse"
    /\ text = <<LB>> \o kA \o <<RB, NL>> \o kK \o <<SP, EQ, SP, "1", NL>>
    /\ lines = <<>>
    /\ current_section = kA
    /\ DOMAIN sections = {<<>>, kA}
    /\ DOMAIN sections[kA] = {kK}

\* the text between the brackets of a trimmed header line
HeaderName(line) == SubSeq(line, 2, Len(line) - 1)

\* C16: when a header names a section the table already holds ([] for the
\* root included), the keys stored under that name are kept and the section
\* becomes the current one, so that later key/value lines are added to them
C16_DuplicateHeaderAppends ==
    [][(AtLine /\ IsHeaderLine(Trim(Head(lines)))
            /\ HeaderName(Trim(Head(lines))) \in DOMAIN sections)
        => /\ sections' = sections
           /\ current_section' = HeaderName(Trim(Head(lines)))]_vars

\* the lines of the text the loop has handled so far
Processed == SubSeq(Lines(text), 1, Len(Lines(text)) - Len(lines))

\* the name between the brackets of the last header among ls, the root
\* without one
LastHeaderName(ls) ==
    LET headers == {i \in 1..Len(ls) : IsHeaderLine(Trim(ls[i]))}
    IN  IF headers = {} THEN <<>>
        ELSE HeaderName(Trim(ls[CHOOSE i \in headers : \A j \in headers : j <= i]))

\* C17: a line whose trimmed form starts with [ and ends with ] is a header,
\* whatever is between the brackets ([ a=\;] too); the name is the text
\* between the brackets as it stands; the section exists from that line on;
\* the current section is the one of the last header, and a key/value line
\* changes that section and no other
C17_HeaderHandling ==
    /\ [](pc = "parse" => current_section = LastHeaderName(Processed))
    /\ [][(AtLine /\ IsHeaderLine(Trim(Head(lines))))
            => /\ current_section' = HeaderName(Trim(Head(lines)))
               /\ DOMAIN sections' = DOMAIN sections \cup {HeaderName(Trim(Head(lines)))}
               /\ \A n \in DOMAIN sections \ {HeaderName(Trim(Head(lines)))} :
                        sections'[n] = sections[n]]_vars
    /\ [][(AtLine /\ IsKeyValueLine(Trim(Head(lines))))
            => /\ current_section' = current_section
               /\ DOMAIN sections' = DOMAIN sections
               /\ \E key \in DOMAIN sections'[current_section] :
                        StartsWith(TrimStart(Head(lines)), key)
               /\ \A n \in DOMAIN sections \ {current_section} :
                        sections'[n] = sections[n]]_vars

\* [ a=\;] and k = 1 have been read: the section " a=\;" exists, is the
\* current one and holds k; the root section holds nothing
C17_Witness ==
    /\ pc = "parse"
    /\ text = <<SP, LB>> \o kOdd \o <<RB, TAB, NL>> \o kK \o <<SP, EQ, SP, "1", NL>>
    /\ lines = <<>>
    /\ current_section = kOdd
    /\ sections = Insert(Insert(EmptyMap, <<>>, EmptyMap), kOdd, Insert(EmptyMap, kK, <<"1">>))

\* the table after the pair on the trimmed key/value line is stored in
\* section cur: the line is cut at its first equals sign, the key is the
\* trimmed left part, the value the trimmed right part, unescaped
StoredPair(tbl, cur, line) ==
    LET n == CHOOSE i \in 1..Len(line) : line[i] = EQ /\ \A j \in 1..(i - 1) : line[j] # EQ
        key == Trim(SubSeq(line, 1, n - 1))
        val == unescape_value(Trim(SubSeq(line, n + 1, Len(line))))
    IN  [tbl EXCEPT ![cur] = [x \in DOMAIN @ \cup {key} |-> IF x = key THEN val ELSE @[x]]]

\* C18: a line that is no comment and no header and holds an equals sign is
\* cut at its first equals sign; the trimmed left part is the key, the
\* trimmed right part passed through unescape_value is the value (later
\* equals signs stay in it); the pair is stored in the current section,
\* which is the root section as long as no header has been read
C18_KeyValueLine ==
    /\ []((pc = "parse" /\ \A i \in 1..Len(Processed) : ~IsHeaderLine(Trim(Processed[i])))
            => (current_section = <<>> /\ DOMAIN sections = {<<>>}))
    /\ [][(AtLine /\ IsKeyValueLine(Trim(Head(lines))))
            => sections' = StoredPair(sections, current_section, Trim(Head(lines)))]_vars

\* the line " k = a=\; " has been read: the root section holds a=; under k
C18_Witness ==
    /\ pc = "parse"
    /\ text = <<SP>> \o kK \o <<SP, EQ, SP, "a", EQ, BS, SEMI, SP, NL>>
    /\ lines = <<>>
    /\ current_section = <<>>
    /\ sections = Insert(EmptyMap, <<>>, Insert(EmptyMap, kK, <<"a", EQ, SEMI>>))

\* the key and the value of a trimmed key/value line
KeyOf(line) == Trim(SubSeq(line, 1, Find(line, EQ) - 1))
ValueOf(line) == unescape_value(Trim(SubSeq(line, Find(line, EQ) + 1, Len(line))))

\* the key/value lines among ls that lie in section n and bear the key
LinesOf(ls, n, key) ==
    {i \in 1..Len(ls) :
        /\ IsKeyValueLine(Trim(ls[i]))
        /\ LastHeaderName(SubSeq(ls, 1, i - 1)) = n
        /\ KeyOf(Trim(ls[i])) = key}

\* C19: a section holds one value per key; the value stored under a key is
\* the value of the last line of that section bearing the key, and the key
\* of the last line read, when that is a key/value line, is stored
C19_LastWriteWins ==
    pc = "parse"
        => /\ \A n \in DOMAIN sections : \A key \in DOMAIN sections[n] :
                LET hits == LinesOf(Processed, n, key)
                IN  /\ hits # {}
                    /\ sections[n][key] =
                        ValueOf(Trim(Processed[CHOOSE i \in hits : \A j \in hits : j <= i]))
           /\ (Processed # <<>> /\ IsKeyValueLine(Trim(Processed[Len(Processed)])))
                => KeyOf(Trim(Processed[Len(Processed)])) \in DOMAIN sections[current_section]

\* k = 1 and k = 2 have been read: the root section holds 2 under k
C19_Witness ==
    /\ pc = "parse"
    /\ text = kK \o <<SP, EQ, SP, "1", NL>> \o kK \o <<SP, EQ, SP, "2", NL>>
    /\ lines = <<>>
    /\ sections = Insert(EmptyMap, <<>>, Insert(EmptyMap, kK, <<"2">>))

\* a blank line, a line whose first non-blank character is ; or #, or a
\* line that is no header and holds no equals sign
Ignorable(raw) ==
    LET line == Trim(raw)
    IN  \/ ~IsContent(line)
        \/ ~IsHeaderLine(line) /\ \A i \in 1..Len(line) : line[i] # EQ

\* C20: a blank line, a comment line (the placeholder "; key = " included)
\* and a line without an equals sign that is no header leave the table and
\* the current section as they are; the loop has no error exit: every step
\* takes one line and goes on to the next
C20_PermissiveParse ==
    /\ [][(AtLine /\ Ignorable(Head(lines)))
            => (sections' = sections /\ current_section' = current_section)]_vars
    /\ [][AtLine => (pc' = "parse" /\ lines' = Tail(lines))]_vars
    /\ [][(pc = "parse" /\ pc' # "parse") => (lines = <<>> /\ pc' = "done")]_vars

\* k = 1, the placeholder ; k = and the line k have been read: the root
\* section still holds 1 under k and nothing else
C20_Witness ==
    /\ pc = "parse"
    /\ text = kK \o <<SP, EQ, SP, "1", NL>>
                \o <<SP, SEMI, SP>> \o kK \o <<SP, EQ, SP, NL>>
                \o kK \o <<NL>>
    /\ lines = <<>>
    /\ current_section = <<>>
    /\ sections = Insert(EmptyMap, <<>>, Insert(EmptyMap, kK, <<"1">>))

-----------------------------------------------------------------------------
(* Placeholders of absent fields in the encoder's text                     *)

\* no field below v holds an empty string
RECURSIVE NoEmptyText(_)
NoEmptyText(v) ==
    CASE v.k = "str" -> v.s # <<>>
      [] v.k = "some" -> NoEmptyText(v.v)
      [] v.k = "struct" -> \A i \in 1..Len(v.fields) : NoEmptyText(v.fields[i].v)
      [] OTHER -> TRUE

\* the fields of the record rec, from the i-th on, and of the records below
\* it that hold None under the key and whose own record has no record-typed
\* field of that name: their number
RECURSIVE AbsentFields(_, _, _)
AbsentFields(rec, i, key) ==
    IF i > Len(rec.fields) THEN 0
    ELSE LET f == rec.fields[i]
             here == IF /\ f.v.k = "none"
                        /\ f.key = key
                        /\ ~\E j \in 1..Len(rec.fields) :
                                rec.fields[j].key = key /\ is_struct(rec.fields[j].v)
                     THEN 1 ELSE 0
             below == IF is_struct(f.v) THEN AbsentFields(Unwrap(f.v), 1, key) ELSE 0
         IN  here + below + AbsentFields(rec, i + 1, key)

\* C21: a field that holds no value is written as the placeholder "; key = "
\* unless a field of the same record with that name is a record, and then as
\* no line at all, in the top-level record and in every nested record: the
\* text holds one placeholder line for each such field
C21_PlaceholderSuppression ==
    (pc # "to_string" /\ Supported(value) /\ NoEmptyText(value) /\ encoded.st = "ok")
        => \A key \in {kX, kY, kA, kB, kG} :
                Cardinality({i \in 1..Len(Lines(encoded.v)) :
                                Lines(encoded.v)[i] = PlaceholderLine(key)})
                    = AbsentFields(value, 1, key)

-----------------------------------------------------------------------------
(* Records below a section in the encoder's text                           *)

\* hay holds the sequence part as a run of consecutive elements
HasRun(hay, part) ==
    \E i \in 0..(Len(hay) - Len(part)) : SubSeq(hay, i + 1, i + Len(part)) = part

\* the lines the encoder writes for the fields of rec before the j-th
LinesBefore(rec, j, names) ==
    SerializeFields(SubSeq(rec.fields, 1, j - 1), 1, <<>>, names).v

-----------------------------------------------------------------------------
(* The choice of the reading at the top level                              *)

\* from_str has returned at a record type with a name that is no section name
FallbackCase ==
    /\ pc = "done"
    /\ value = Nil
    /\ IsRootComposite(shape)
    /\ shape.name # <<>>
    /\ shape.name \notin DOMAIN sections

\* C23: at a record type whose name is not empty and is no section name,
\* from_str reads every field from the root section alone when the table
\* has no other section, and takes the root-composite reading (scalar
\* fields from the root section, record-typed fields from the sections of
\* their names) when it has one
C23_FallbackBranches ==
    /\ (FallbackCase /\ DOMAIN sections = {<<>>})
        => IF RecordFrom(sections[<<>>], shape).st = "ok"
           THEN decoded = RecordFrom(sections[<<>>], shape)
           ELSE decoded.st = "err"
    /\ (FallbackCase /\ DOMAIN sections # {<<>>} /\ NoNameClash(sections, shape))
        => IF RootComposite(sections, shape).st = "ok"
           THEN decoded = RootComposite(sections, shape)
           ELSE decoded.st = "err"

\* name = app and port = 8080 without any section, read at a record that
\* declares db: Db: the root section has no key db
C23_Witness ==
    /\ pc = "done"
    /\ text = KV(kName, rApp) \o KV(kPort, r8080)
    /\ DOMAIN sections = {<<>>}
    /\ shape = TRec(Config, <<TF(kName, TString), TF(kPort, TInt("u16")), TF(kDb, DbShape)>>)
    /\ decoded = Err(MissingField(kDb))

\* C24: at a record type whose name is empty or is the name of a section of
\* the table, from_str takes the section reading: the root section alone
\* supplies every field of the record
C24_SectionReading ==
    (pc = "done" /\ value = Nil /\ IsFlatRecord(shape)
        /\ (shape.name = <<>> \/ shape.name \in DOMAIN sections))
        => IF RecordFrom(sections[<<>>], shape).st = "ok"
           THEN decoded = RecordFrom(sections[<<>>], shape)
           ELSE decoded.st = "err"

-----------------------------------------------------------------------------
(* Records two levels below the top, decoded                               *)

\* the scalar fields of the record are declared before its record fields
ScalarsFirst(rec) ==
    \A i, j \in 1..Len(rec.fields) :
        (i < j /\ is_struct(rec.fields[i].v)) => is_struct(rec.fields[j].v)

\* the record-typed fields of rec
RecordFields(rec) == {i \in 1..Len(rec.fields) : rec.fields[i].v.k = "struct"}

\* a supported record, scalars declared first at both levels, with a record
\* field that holds a record field itself
TwoLevelCase ==
    /\ value # Nil
    /\ Supported(value)
    /\ NoEmptyText(value)
    /\ ScalarsFirst(value)
    /\ \A i \in 1..Len(value.fields) : value.fields[i].v.k # "some"
    /\ \A i \in RecordFields(value) : ScalarsFirst(value.fields[i].v)
    /\ \E i \in RecordFields(value) : RecordFields(value.fields[i].v) # {}

\* C25: a record field of a record that is decoded from a single section is
\* resolved from the section of its own name: a record two levels deep that
\* to_string wrote as [child] and [grandchild] decodes with child.grandchild
\* filled from [grandchild]
C25_NestedResolution ==
    (pc \in {"encode_failed", "done"} /\ TwoLevelCase)
        => /\ pc = "done"
           /\ decoded.st = "ok"
           /\ \A i \in RecordFields(value) : \A j \in RecordFields(value.fields[i].v) :
                decoded.v.fields[i].v.fields[j].v = value.fields[i].v.fields[j].v

-----------------------------------------------------------------------------
(* The iteration order of the table's maps                                 *)

\* C26: for a fixed text and target type the outcome of from_str, the value
\* or the exact error, is the same under every iteration order of the
\* table's root keys and sections
C26_OrderIndependence ==
    (pc = "done" /\ value = Nil /\ IsRootComposite(shape)
        /\ shape.name \notin DOMAIN sections /\ NoNameClash(sections, shape))
        => \A ord \in Orders(sections) : Deserialize(sections, ord, shape) = decoded

-----------------------------------------------------------------------------
(* The grammar of integers and characters                                  *)

\* decimal digits, after a minus sign for the signed types only and without
\* a plus sign, within the range of the type
AcceptedInt(ty, raw) ==
    LET body == IF raw # <<>> /\ Head(raw) = "-" /\ ty \in SignedTypes THEN Tail(raw) ELSE raw
    IN  /\ body # <<>>
        /\ \A i \in 1..Len(body) : IsDigit(body[i])
        /\ ~OutOfRange(ty, raw)

\* the integer a text of digits with an optional minus sign denotes
Denoted(ty, raw) ==
    LET body == IF Head(raw) = "-" THEN Tail(raw) ELSE raw
        mag == StripZeros([i \in 1..Len(body) |-> DigitOf(body[i])])
    IN  [k |-> "int", ty |-> ty, neg |-> (Head(raw) = "-" /\ mag # <<0>>), mag |-> mag]

\* from_str has returned on the one line port = raw at a record with the
\* one field port of type t
OneFieldCase(t) ==
    /\ pc = "done"
    /\ value = Nil
    /\ shape = TRec(Config, <<TF(kPort, t)>>)
    /\ DOMAIN sections = {<<>>}
    /\ DOMAIN sections[<<>>] = {kPort}

\* C27: for every integer type a raw value is accepted exactly when it is
\* decimal text within the range of the type, with a leading minus sign for
\* the signed types only and no leading plus sign; the accepted text gives
\* the integer it denotes, any other text InvalidValue
C27_IntegerGrammar ==
    \A ty \in IntTypes :
        OneFieldCase(TInt(ty))
            => LET raw == sections[<<>>][kPort]
               IN  decoded =
                    IF AcceptedInt(ty, raw)
                    THEN Ok([k |-> "struct", name |-> Config,
                             fields |-> <<[key |-> kPort, v |-> Denoted(ty, raw)]>>])
                    ELSE Err(InvalidValue(ty, raw))

\* C28: a raw value coerces to a character exactly when it is one character
\* long, whatever the width of the character in bytes, and gives that
\* character; every other raw value, the empty one included, fails with
\* InvalidValue(char, raw)
C28_CharCoercion ==
    (pc = "done" /\ shape = TRec(Config, <<TF(kX, [k |-> "char"])>>)
        /\ DOMAIN sections = {<<>>} /\ DOMAIN sections[<<>>] = {kX})
        => LET raw == sections[<<>>][kX]
           IN  decoded =
                IF Len(raw) = 1
                THEN Ok([k |-> "struct", name |-> Config,
                         fields |-> <<[key |-> kX, v |-> [k |-> "char", c |-> raw[1]]]>>])
                ELSE Err(InvalidValue("char", raw))

-----------------------------------------------------------------------------
(* Values that are written without text                                    *)

\* None, the empty string, the unit and a map, also under Some
RECURSIVE RendersEmpty(_)
RendersEmpty(v) ==
    CASE v.k \in {"none", "unit", "map"} -> TRUE
      [] v.k = "str" -> v.s = <<>>
      [] v.k = "some" -> RendersEmpty(v.v)
      [] OTHER -> FALSE

\* the fields of the record rec, from the i-th on, and of the records below
\* it that bear the key, are no records and are written without text: their
\* number
RECURSIVE EmptyFields(_, _, _)
EmptyFields(rec, i, key) ==
    IF i > Len(rec.fields) THEN 0
    ELSE LET f == rec.fields[i]
             here == IF ~is_struct(f.v) /\ RendersEmpty(f.v) /\ f.key = key THEN 1 ELSE 0
             below == IF is_struct(f.v) THEN EmptyFields(Unwrap(f.v), 1, key) ELSE 0
         IN  here + below + EmptyFields(rec, i + 1, key)

-----------------------------------------------------------------------------
(* The access run: a RootStructAccess is built over a table and its        *)
(* next_key_seed and next_value_seed are called one after the other.       *)

\* access run: most calls made on one RootStructAccess
MaxCalls == 8

\* RootStructAccess::new: the (key, value) pairs of the root section and the
\* names of the other sections, each in the iteration order of its HashMap
NewRootStructAccess(tbl, ord) ==
    [root_fields |-> IF <<>> \in DOMAIN tbl
                     THEN [i \in 1..Len(ord.keys[<<>>]) |->
                            <<ord.keys[<<>>][i], tbl[<<>>][ord.keys[<<>>][i]]>>]
                     ELSE <<>>,
     sections |-> ord.secs,
     index |-> 0,
     in_sections |-> FALSE]

\* a next_key_seed that keeps the index when it switches to the sections
RECURSIVE next_key_seed_no_reset(_)
next_key_seed_no_reset(a) ==
    IF ~a.in_sections /\ a.index < Len(a.root_fields)
    THEN [access |-> [a EXCEPT !.index = @ + 1],
          result |-> [some |-> TRUE, key |-> a.root_fields[a.index + 1][1]]]
    ELSE IF ~a.in_sections
    THEN next_key_seed_no_reset([a EXCEPT !.in_sections = TRUE])
    ELSE IF a.index < Len(a.sections)
    THEN [access |-> [a EXCEPT !.index = @ + 1],
          result |-> [some |-> TRUE, key |-> a.sections[a.index + 1]]]
    ELSE [access |-> a, result |-> [some |-> FALSE]]

\* MapAccess::next_key_seed for RootStructAccess: the object after the call
\* and the Option returned, some with the key or not some (index counts
\* from 0 as in the source)
RECURSIVE next_key_seed(_)
next_key_seed(a) ==
    IF ~a.in_sections /\ a.index < Len(a.root_fields)
    THEN [access |-> [a EXCEPT !.index = @ + 1],
          result |-> [some |-> TRUE, key |-> a.root_fields[a.index + 1][1]]]
    ELSE IF ~a.in_sections
    THEN next_key_seed([a EXCEPT !.in_sections = TRUE, !.index = 0])
    ELSE IF a.index < Len(a.sections)
    THEN [access |-> [a EXCEPT !.index = @ + 1],
          result |-> [some |-> TRUE, key |-> a.sections[a.index + 1]]]
    ELSE [access |-> a, result |-> [some |-> FALSE]]

\* MapAccess::next_value_seed for RootStructAccess: the deserializer the
\* seed is run on, a panic when index - 1 is no position of the vector
next_value_seed(a) ==
    IF ~a.in_sections
    THEN IF a.index \in 1..Len(a.root_fields)
         THEN [kind |-> "value", raw |-> a.root_fields[a.index][2]]
         ELSE [kind |-> "panic"]
    ELSE IF a.index \in 1..Len(a.sections)
         THEN [kind |-> "section", name |-> a.sections[a.index]]
         ELSE [kind |-> "panic"]

\* tables with no, one and two root keys and with no, one and two sections;
\* a is a root key and a section name
AccessTables ==
    {[n \in {<<>>} \cup names |-> IF n = <<>> THEN root ELSE Insert(EmptyMap, kK, <<"3">>)] :
        root \in {EmptyMap, Insert(EmptyMap, kK, <<"1">>),
                  Insert(Insert(EmptyMap, kK, <<"1">>), kA, <<"2">>)},
        names \in {{}, {kA}, {kA, kG}}}

InitAccess ==
    /\ pc = "access"
    /\ sections \in AccessTables
    /\ \E ord \in Orders(sections) : access = NewRootStructAccess(sections, ord)
    /\ calls = <<>>
    /\ input = Nil
    /\ escaped = Nil
    /\ unescaped = Nil
    /\ value = Nil
    /\ encoded = Nil
    /\ shape = Nil
    /\ text = Nil
    /\ lines = Nil
    /\ current_section = Nil
    /\ decoded = Nil

\* the visitor asks for the next key
NextKeySeed ==
    /\ pc = "access"
    /\ Len(calls) < MaxCalls
    /\ access' = next_key_seed(access).access
    /\ calls' = Append(calls, [call |-> "next_key_seed",
                                result |-> next_key_seed(access).result])
    /\ UNCHANGED <<pc, input, escaped, unescaped, value, encoded, shape, text, lines,
                   sections, current_section, decoded>>

\* the visitor asks for the value of the key it has just been given
NextValueSeed ==
    /\ pc = "access"
    /\ Len(calls) < MaxCalls
    /\ calls # <<>>
    /\ calls[Len(calls)].call = "next_key_seed"
    /\ calls[Len(calls)].result.some
    /\ calls' = Append(calls, [call |-> "next_value_seed",
                                result |-> next_value_seed(access)])
    /\ UNCHANGED <<pc, input, escaped, unescaped, value, encoded, shape, text, lines,
                   sections, current_section, decoded, access>>

NextAccess == NextKeySeed \/ NextValueSeed

SpecAccess == InitAccess /\ [][NextAccess]_vars

\* the root keys in the order of root_fields, then the section names in the
\* order of the access object's sections
AllKeys == [i \in 1..Len(access.root_fields) |-> access.root_fields[i][1]] \o access.sections

\* the number of keys the calls before the i-th have returned
KeysBefore(i) ==
    Cardinality({j \in 1..(i - 1) : calls[j].call = "next_key_seed" /\ calls[j].result.some})

\* the elements of the sequence are those of the set, each once
ListsOnce(seq, S) ==
    /\ {seq[i] : i \in 1..Len(seq)} = S
    /\ Len(seq) = Cardinality(S)

\* C30: the next_key_seed calls on a RootStructAccess return every root key
\* once, then every non-root section name once, then end-of-map on every
\* later call, also when the root section is empty; a next_value_seed call
\* that follows a key returns the raw value of that root key or the section
\* deserializer of that section name, and never indexes out of bounds
C30_KeySequence ==
    pc = "access"
        => /\ ListsOnce(SubSeq(AllKeys, 1, Len(access.root_fields)), DOMAIN sections[<<>>])
           /\ ListsOnce(access.sections, DOMAIN sections \ {<<>>})
           /\ \A i \in 1..Len(calls) :
                LET n == KeysBefore(i)
                IN  IF calls[i].call = "next_key_seed"
                    THEN calls[i].result =
                            IF n < Len(AllKeys) THEN [some |-> TRUE, key |-> AllKeys[n + 1]] ELSE [some |-> FALSE]
                    ELSE calls[i].result =
                            IF n <= Len(access.root_fields)
                            THEN [kind |-> "value", raw |-> sections[<<>>][AllKeys[n]]]
                            ELSE [kind |-> "section", name |-> AllKeys[n]]

\* over a table with the root key k and the section a: k, its value, a, its
\* section deserializer, and end-of-map twice
C30_Witness ==
    /\ pc = "access"
    /\ DOMAIN sections = {<<>>, kA}
    /\ DOMAIN sections[<<>>] = {kK}
    /\ calls = <<[call |-> "next_key_seed", result |-> [some |-> TRUE, key |-> kK]],
                 [call |-> "next_value_seed", result |-> [kind |-> "value", raw |-> <<"1">>]],
                 [call |-> "next_key_seed", result |-> [some |-> TRUE, key |-> kA]],
                 [call |-> "next_value_seed", result |-> [kind |-> "section", name |-> kA]],
                 [call |-> "next_key_seed", result |-> [some |-> FALSE]],
                 [call |-> "next_key_seed", result |-> [some |-> FALSE]]>>

====
